---- MODULE Spec2Model ----
(***************************************************************************)
(* pox: gettext catalogs <-> spreadsheets.                                 *)
(*                                                                         *)
(* The table encoder (SpreadsheetGenerator.get_tabledata) and the table    *)
(* decoder (Excel2PoConverter.convert_xlsx) as state machines.             *)
(*                                                                         *)
(* Python values are tagged records: None, Str(s) and Num(i).  A string is *)
(* a sequence of segments, so that startswith() is a real prefix test:     *)
(* "Translation (x)" is <<"Translation", " (", "x", ")">> and              *)
(* "Translations" is <<"Translation", "s">>.                               *)
(***************************************************************************)
EXTENDS Integers, Sequences, FiniteSets, TLC

VARIABLES
    pc,                 \* position of the run
    messages,           \* SpreadsheetContext.messages
    plural_form_hints,  \* SpreadsheetContext.plural_form_hints
    tabledata,          \* the result of get_tabledata
    wb,                 \* the workbook convert_xlsx loads
    po,                 \* the entries of the POFile convert_xlsx builds
    raised,             \* the exception that left convert_xlsx ("none" if none)
    saved,              \* the PO files written by po.save, in order
    xlsx_file,          \* options.xlsx_file of the import command
    file_pos,           \* the file Excel2PoConverter.run converts next
    written,            \* the files of xlsx_file whose PO file is written
    po_files,           \* sorted(self.po_files) of the export command
    ready,              \* the callbacks the event loop has still to run
    tasks,              \* the state of every task of the task group
    generated,          \* the catalogs whose spreadsheet is generated
    call,               \* the call made to the plural formula engine
    ret,                \* what that call returned or raised
    ws,                 \* the fill and the border of every cell generate styled
    options,            \* the options of the converter that converts pofile
    pofile,             \* the catalog convert_po_file reads
    Po2ExcelConverter_po_files,             \* the class attribute po_files
    Po2ExcelConverter_warning_descriptions, \* the class attribute
    converters          \* the converter instances of the process

import_vars == <<xlsx_file, file_pos, written>>
export_vars == <<po_files, ready, tasks, generated>>
plural_vars == <<call, ret>>
convert_vars == <<options, pofile>>
process_vars == <<Po2ExcelConverter_po_files, Po2ExcelConverter_warning_descriptions,
                  converters>>

vars == <<pc, messages, plural_form_hints, tabledata, wb, po, raised, saved,
          import_vars, export_vars, plural_vars, ws, convert_vars, process_vars>>

(***************************************************************************)
(* Bounds of the model.                                                    *)
(***************************************************************************)
MaxMsgs == 2        \* messages of a catalog
MaxPlurals == 3     \* entries of plural_form_hints
MaxForms == 2       \* forms of one plural message
MaxRows == 2        \* data rows of a loaded sheet
MaxTrans == 2       \* translation cells of a loaded row

(***************************************************************************)
(* Python values.                                                          *)
(***************************************************************************)
None == [t |-> "None"]
Str(s) == [t |-> "str", s |-> s]
Num(i) == [t |-> "int", v |-> i]
Bool(b) == [t |-> "bool", b |-> b]
Dict(d) == [t |-> "dict", d |-> d]

EmptyStr == Str(<<>>)
EmptyDict == Dict(<<>>)

\* no import batch, no export batch, no call to the formula engine
ImportIdle == xlsx_file = <<>> /\ file_pos = 0 /\ written = {}
ExportIdle == po_files = <<>> /\ ready = <<>> /\ tasks = <<>> /\ generated = {}
PluralIdle == call = [fn |-> "none"] /\ ret = [raised |-> "none"]

\* no sheet styled, no catalog under conversion, no converter constructed
SheetIdle == ws = <<>>
ConvertIdle == options = None /\ pofile = None
ProcessIdle ==
    /\ Po2ExcelConverter_po_files = <<>>
    /\ Po2ExcelConverter_warning_descriptions = <<>>
    /\ converters = <<>>

\* bool(v)
Truthy(v) ==
    CASE v.t = "None" -> FALSE
      [] v.t = "str" -> v.s # <<>>
      [] v.t = "int" -> v.v # 0
      [] v.t = "bool" -> v.b
      [] v.t = "dict" -> DOMAIN v.d # {}

\* v or d
PyOr(v, d) == IF Truthy(v) THEN v ELSE d

\* str(v).startswith(prefix), for a string v
StartsWith(v, prefix) ==
    /\ v.t = "str"
    /\ Len(v.s) >= Len(prefix)
    /\ SubSeq(v.s, 1, Len(prefix)) = prefix

\* d.get(k, default)
DictGet(dct, k, default) == IF k \in DOMAIN dct.d THEN dct.d[k] ELSE default

\* len(d)
DictLen(dct) == Cardinality(DOMAIN dct.d)

\* the decimal rendering of a small non-negative integer
Digit(i) == <<"0", "1", "2", "3", "4", "5", "6", "7", "8", "9">>[i + 1]

(***************************************************************************)
(* The message model (datastructures.py).                                  *)
(***************************************************************************)
SingularTranslation(msgid, msgstr) ==
    [kind |-> "Singular", msgid |-> msgid, msgstr |-> msgstr]

PluralTranslation(msgid, msgstr) ==
    [kind |-> "Plural", msgid |-> msgid, msgstr |-> msgstr]

Message(translation, context, obsolete) ==
    [translation |-> translation, context |-> context, obsolete |-> obsolete]

is_plural(m) == m.translation.kind = "Plural"

(***************************************************************************)
(* Styles (styles.py): the members of SpreadsheetStyles are tags; a cell   *)
(* without a style carries NoStyle.                                        *)
(***************************************************************************)
NoStyle == "None"
S_HEADER == "HEADER"
S_ID == "ID"
S_CONTEXT == "CONTEXT"
S_MSG_ID == "MSG_ID"
S_MSG_STR_EMPTY == "MSG_STR_EMPTY"
S_MSG_STR_OBSOLETE == "MSG_STR_OBSOLETE"

(***************************************************************************)
(* The inputs: catalogs.                                                   *)
(***************************************************************************)
\* the source text of the k-th entry of a catalog
MsgId(k) == Str(<<"msgid", Digit(k)>>)

\* the non-empty target text of form i
FormText(i) == Str(<<"msgstr", Digit(i)>>)

Contexts == {None, Str(<<"ctx">>), Str(<<"obsolete">>)}

PluralDicts ==
    UNION {{Dict(d) : d \in [0 .. f - 1 -> {EmptyStr}] \cup
                         {[i \in 0 .. f - 1 |-> FormText(i)]} \cup
                         {[i \in 0 .. f - 1 |-> IF i = j THEN EmptyStr ELSE FormText(i)] :
                              j \in 0 .. f - 1}} :
           f \in 1 .. MaxForms}

Translations(k) ==
    {SingularTranslation(MsgId(k), s) : s \in {EmptyStr, FormText(0)}}
        \cup {PluralTranslation(MsgId(k), d) : d \in PluralDicts}

\* translations with every target text present
FilledTranslations(k) ==
    {SingularTranslation(MsgId(k), FormText(0)),
     PluralTranslation(MsgId(k), Dict([i \in 0 .. MaxForms - 1 |-> FormText(i)]))}

\* every translation without a context, and every context on the translations
\* whose texts are all present; obsolete or not
MessageSet(k) ==
    {Message(t, None, o) : t \in Translations(k), o \in BOOLEAN}
        \cup {Message(t, c, o) : t \in FilledTranslations(k), c \in Contexts,
                                 o \in BOOLEAN}

\* dense hints 0..n-1, as get_plural_hints returns them, or no hints at all
HintText(i) == Str(<<"hint", Digit(i)>>)

HintChoices ==
    {None} \cup {Dict([i \in 0 .. n - 1 |-> HintText(i)]) : n \in 1 .. MaxPlurals}

(***************************************************************************)
(* SpreadsheetGenerator.get_tabledata (spreadsheet.py).                    *)
(***************************************************************************)
\* plural_hints = context.plural_form_hints or {}
plural_hints_of(hints) == PyOr(hints, EmptyDict)

has_plurals_nomsgs(msgs, num_plurals) == num_plurals >= 2

has_plurals(msgs, num_plurals) ==
    num_plurals >= 2 /\ \E i \in 1 .. Len(msgs) : is_plural(msgs[i])

extra_cols_declared(msgs, num_plurals) ==
    IF num_plurals >= 2 THEN num_plurals - 1 ELSE 0

extra_cols(msgs, num_plurals) ==
    IF has_plurals(msgs, num_plurals) THEN num_plurals - 1 ELSE 0

\* f"Translation ({hint})"
TranslationLabel(hint) == Str(<<"Translation", " (">> \o hint.s \o <<")">>)

\* f"Plural Form {i + 1}"
PluralFormLabel(i) == Str(<<"Plural Form ", Digit(i + 1)>>)

base_translation_label(msgs, plural_hints) ==
    IF has_plurals(msgs, DictLen(plural_hints))
    THEN TranslationLabel(DictGet(plural_hints, 0, Str(<<"Singular">>)))
    ELSE Str(<<"Translation">>)

header_of(msgs, plural_hints) ==
    LET num_plurals == DictLen(plural_hints)
    IN  << <<Str(<<"id">>), S_HEADER>>,
           <<Str(<<"Context">>), S_HEADER>>,
           <<Str(<<"Singular Form">>), S_HEADER>>,
           <<base_translation_label(msgs, plural_hints), S_HEADER>> >>
        \o (IF has_plurals(msgs, num_plurals)
            THEN [i \in 1 .. num_plurals - 1 |->
                     <<TranslationLabel(DictGet(plural_hints, i, PluralFormLabel(i))),
                       S_HEADER>>]
            ELSE <<>>)

\* any(v == "" for v in msgstr_dict.values())
AnyEmpty(dct) == \E k \in DOMAIN dct.d : dct.d[k] = EmptyStr

AllEmpty(dct) == \A k \in DOMAIN dct.d : dct.d[k] = EmptyStr

msg_str_style_all(m) ==
    LET first == IF m.obsolete THEN S_MSG_STR_OBSOLETE
                 ELSE IF ~is_plural(m) /\ m.translation.msgstr = EmptyStr
                      THEN S_MSG_STR_EMPTY
                      ELSE S_MSG_ID
    IN  IF is_plural(m) /\ AllEmpty(m.translation.msgstr)
        THEN S_MSG_STR_EMPTY
        ELSE first

\* lines 152-156, and 164-165 for a plural message
msg_str_style(m) ==
    LET first == IF m.obsolete THEN S_MSG_STR_OBSOLETE
                 ELSE IF ~is_plural(m) /\ m.translation.msgstr = EmptyStr
                      THEN S_MSG_STR_EMPTY
                      ELSE S_MSG_ID
    IN  IF is_plural(m) /\ AnyEmpty(m.translation.msgstr)
        THEN S_MSG_STR_EMPTY
        ELSE first

context_cell_keep(m) ==
    IF m.obsolete /\ m.context = None THEN Str(<<"obsolete">>) ELSE m.context

\* "obsolete" if m.obsolete else m.context
context_cell(m) == IF m.obsolete THEN Str(<<"obsolete">>) ELSE m.context

row_id_zero(i) == Num(i - 1)

\* i + 1 for the 0-based position of enumerate(); i is 1-based here
row_id(i) == Num(i)

\* the row of the i-th message (i is 1-based)
row_of(i, m, msgs, num_plurals) ==
    IF is_plural(m)
    THEN << <<row_id(i), S_ID>>,
            <<context_cell(m), S_CONTEXT>>,
            <<m.translation.msgid, S_MSG_ID>>,
            <<DictGet(m.translation.msgstr, 0, EmptyStr), msg_str_style(m)>> >>
         \o [pi \in 1 .. num_plurals - 1 |->
                <<DictGet(m.translation.msgstr, pi, EmptyStr), msg_str_style(m)>>]
    ELSE << <<row_id(i), S_ID>>,
            <<context_cell(m), S_CONTEXT>>,
            <<m.translation.msgid, S_MSG_ID>>,
            <<m.translation.msgstr, msg_str_style(m)>> >>
         \o [k \in 1 .. extra_cols(msgs, num_plurals) |-> <<EmptyStr, NoStyle>>]

get_tabledata(msgs, hints) ==
    LET plural_hints == plural_hints_of(hints)
        num_plurals == DictLen(plural_hints)
    IN  <<header_of(msgs, plural_hints)>>
        \o [i \in 1 .. Len(msgs) |-> row_of(i, msgs[i], msgs, num_plurals)]

(***************************************************************************)
(* The export run: the catalog is collected entry by entry, then encoded.  *)
(***************************************************************************)
NoWorkbook == [sheets |-> <<>>]

Init ==
    /\ pc = "collect"
    /\ ImportIdle /\ ExportIdle /\ PluralIdle
    /\ SheetIdle /\ ConvertIdle /\ ProcessIdle
    /\ messages = <<>>
    /\ plural_form_hints = None
    /\ tabledata = <<>>
    /\ wb = NoWorkbook
    /\ po = <<>>
    /\ raised = "none"
    /\ saved = <<>>

\* convert_po_file: messages.append(m)
AppendMessage ==
    /\ pc = "collect"
    /\ Len(messages) < MaxMsgs
    /\ \E m \in MessageSet(Len(messages) + 1) :
          messages' = Append(messages, m)
    /\ UNCHANGED <<ws, convert_vars, process_vars>>
    /\ UNCHANGED <<import_vars, export_vars, plural_vars>>
    /\ UNCHANGED <<pc, plural_form_hints, tabledata, wb, po, raised, saved>>

\* convert_po_file builds the SpreadsheetContext; generate calls get_tabledata
GetTabledata ==
    /\ pc = "collect"
    /\ \E h \in HintChoices :
          /\ plural_form_hints' = h
          /\ tabledata' = get_tabledata(messages, h)
    /\ pc' = "encoded"
    /\ UNCHANGED <<ws, convert_vars, process_vars>>
    /\ UNCHANGED <<import_vars, export_vars, plural_vars>>
    /\ UNCHANGED <<messages, wb, po, raised, saved>>

Next == AppendMessage \/ GetTabledata

Spec == Init /\ [][Next]_vars

(***************************************************************************)
(* Excel2PoConverter.convert_xlsx (cli/xop_convert.py).                    *)
(*                                                                         *)
(* A workbook is its sheets in order, each a name and the rows that        *)
(* ws.iter_rows(values_only=True) yields: tuples of cell values, which a   *)
(* read-only sheet without dimensions yields as long as the row's last     *)
(* cell, and empty for a row without cells.                                *)
(***************************************************************************)
Sheet(name, rows) == [name |-> name, rows |-> rows]

Workbook(sheets) == [sheets |-> sheets]

POEntry(msgid, msgid_plural, msgstr, msgstr_plural, msgctxt, obsolete) ==
    [msgid |-> msgid, msgid_plural |-> msgid_plural, msgstr |-> msgstr,
     msgstr_plural |-> msgstr_plural, msgctxt |-> msgctxt, obsolete |-> obsolete]

\* row[idx], idx 0-based, for an index the row has
Cell(row, idx) == row[idx + 1]

find_sheet_first(sheets) == IF Len(sheets) > 0 THEN 1 ELSE 0

\* the index of the first sheet whose name starts with "Translations", 0 if
\* there is none (ws is None)
find_sheet(sheets) ==
    LET hits == {i \in 1 .. Len(sheets) :
                    StartsWith(sheets[i].name, <<"Translation", "s">>)}
    IN  IF hits = {} THEN 0 ELSE CHOOSE i \in hits : \A j \in hits : i <= j

\* sum(1 for h in header_row[3:] if h and str(h).startswith("Translation"))
num_translation_cols(header_row) ==
    Cardinality({j \in 4 .. Len(header_row) :
                    /\ Truthy(header_row[j])
                    /\ StartsWith(header_row[j], <<"Translation">>)})

\* not row or row[0] is None or row[0] == ""
skip_row(row) ==
    \/ Len(row) = 0
    \/ Cell(row, 0) = None
    \/ Cell(row, 0) = EmptyStr

\* row[1] or row[2] raises IndexError
index_error(row) == Len(row) < 3

entry_context_leak(row) ==
    IF Truthy(Cell(row, 1)) THEN Cell(row, 1) ELSE None

\* row[1] if row[1] and row[1] != "obsolete" else None
entry_context(row) ==
    IF Truthy(Cell(row, 1)) /\ Cell(row, 1) # Str(<<"obsolete">>)
    THEN Cell(row, 1)
    ELSE None

\* row[1] == "obsolete"
entry_obsolete(row) == Cell(row, 1) = Str(<<"obsolete">>)

\* lines 85-108: the entry of a row of at least three cells
entry_of(row, ntc) ==
    LET msgid == PyOr(Cell(row, 2), EmptyStr)
    IN  IF ntc > 1
        THEN POEntry(msgid, msgid, EmptyStr,
                     Dict([pi \in 0 .. ntc - 1 |->
                              PyOr(IF 3 + pi < Len(row) THEN Cell(row, 3 + pi)
                                   ELSE EmptyStr,
                                   EmptyStr)]),
                     entry_context(row), entry_obsolete(row))
        ELSE POEntry(msgid, EmptyStr,
                     IF Len(row) > 3 THEN PyOr(Cell(row, 3), EmptyStr) ELSE EmptyStr,
                     EmptyDict,
                     entry_context(row), entry_obsolete(row))

\* the loop over data_rows from row k on, acc the entries appended so far
RECURSIVE decode_rows(_, _, _, _)
decode_rows(data_rows, ntc, k, acc) ==
    IF k > Len(data_rows)
    THEN [raised |-> "none", po |-> acc]
    ELSE IF skip_row(data_rows[k])
         THEN decode_rows(data_rows, ntc, k + 1, acc)
         ELSE IF index_error(data_rows[k])
              THEN [raised |-> "IndexError", po |-> acc]
              ELSE decode_rows(data_rows, ntc, k + 1,
                               Append(acc, entry_of(data_rows[k], ntc)))

\* if len(rows) < 2: self.fail(...)
min_rows == 2

\* the exception convert_xlsx ends with and the entries of its POFile
convert_xlsx(workbook) ==
    LET idx == find_sheet(workbook.sheets)
    IN  IF idx = 0
        THEN [raised |-> "ConverterError", po |-> <<>>]
        ELSE LET rows == workbook.sheets[idx].rows
             IN  IF Len(rows) < min_rows
                 THEN [raised |-> "ConverterError", po |-> <<>>]
                 ELSE decode_rows(Tail(rows), num_translation_cols(rows[1]), 1, <<>>)

(***************************************************************************)
(* The styles of the generated sheet (styles.py, spreadsheet.py): a cell   *)
(* of the sheet is the colour of its fill and its border.                  *)
(***************************************************************************)
\* the fgColor of a cell without a fill
NoFill == "00000000"

BLACK == "FF000000"
LIGHT_GRAY == "FFF2F2F2"
YELLOW == "FFFFF2CC"
ROW_STRIPE == "FFF9F9F9"

NoSide == "none"
MEDIUM_BLACK == "medium"
THIN_BLACK == "thin"

Border(left, right, top, bottom) ==
    [left |-> left, right |-> right, top |-> top, bottom |-> bottom]

NoBorder == Border(NoSide, NoSide, NoSide, NoSide)
EMPTY_BORDER == Border(MEDIUM_BLACK, MEDIUM_BLACK, NoSide, THIN_BLACK)
EMPTY_BORDER_TOP == Border(MEDIUM_BLACK, MEDIUM_BLACK, MEDIUM_BLACK, THIN_BLACK)
EMPTY_BORDER_BOTTOM == Border(MEDIUM_BLACK, MEDIUM_BLACK, NoSide, MEDIUM_BLACK)
EMPTY_BORDER_SINGLE == Border(MEDIUM_BLACK, MEDIUM_BLACK, MEDIUM_BLACK, MEDIUM_BLACK)

\* the fill a style gives a cell: HEADER, CONTEXT and MSG_STR_EMPTY have one
fill_of(style) ==
    CASE style = S_HEADER -> BLACK
      [] style = S_CONTEXT -> LIGHT_GRAY
      [] style = S_MSG_STR_EMPTY -> YELLOW
      [] OTHER -> NoFill

\* ws.max_column
max_column(data) ==
    CHOOSE n \in {Len(data[r]) : r \in 1 .. Len(data)} :
        \A r \in 1 .. Len(data) : Len(data[r]) <= n

\* ws.append and apply_styles, for every row of data
apply_styles(data) ==
    [r \in 1 .. Len(data) |->
        [c \in 1 .. max_column(data) |->
            [fill |-> IF c <= Len(data[r]) THEN fill_of(data[r][c][2]) ELSE NoFill,
             border |-> NoBorder]]]

apply_row_stripes_over(sheet, data_start, data_end) ==
    [r \in 1 .. Len(sheet) |->
        [c \in 1 .. Len(sheet[r]) |->
            IF r \in data_start .. data_end /\ (r - data_start) % 2 = 1
            THEN [sheet[r][c] EXCEPT !.fill = ROW_STRIPE]
            ELSE sheet[r][c]]]

apply_row_stripes(sheet, data_start, data_end) ==
    [r \in 1 .. Len(sheet) |->
        [c \in 1 .. Len(sheet[r]) |->
            IF /\ r \in data_start .. data_end
               /\ (r - data_start) % 2 = 1
               /\ sheet[r][c].fill = NoFill
            THEN [sheet[r][c] EXCEPT !.fill = ROW_STRIPE]
            ELSE sheet[r][c]]]

\* the rows from data_start on whose cell in the column has the yellow fill
empty_rows(sheet, col) ==
    SelectSeq([k \in 1 .. Len(sheet) - 1 |-> k + 1],
              LAMBDA row : sheet[row][col].fill = YELLOW)

\* the loop of apply_empty_borders over empty_rows[1:], from rows[k] on
RECURSIVE group_loop(_, _, _, _, _)
group_loop(rows, k, start, prev, groups) ==
    IF k > Len(rows)
    THEN Append(groups, <<start, prev>>)
    ELSE IF rows[k] = prev + 1
         THEN group_loop(rows, k + 1, start, rows[k], groups)
         ELSE group_loop(rows, k + 1, rows[k], rows[k],
                         Append(groups, <<start, prev>>))

\* the border the loop over the groups gives the cell of a row of a group
group_border(grp, row) ==
    IF grp[1] = grp[2]
    THEN EMPTY_BORDER_SINGLE
    ELSE IF row = grp[1]
         THEN EMPTY_BORDER_TOP
         ELSE IF row = grp[2] THEN EMPTY_BORDER_BOTTOM ELSE EMPTY_BORDER

\* the cells of one column after the loop over its groups
column_borders(sheet, col, rows) ==
    LET bordered(groups) ==
            [r \in 1 .. Len(sheet) |->
                IF \E g \in 1 .. Len(groups) : groups[g][1] <= r /\ r <= groups[g][2]
                THEN [sheet[r][col] EXCEPT !.border =
                         group_border(groups[CHOOSE g \in 1 .. Len(groups) :
                                                groups[g][1] <= r /\ r <= groups[g][2]],
                                      r)]
                ELSE sheet[r][col]]
    IN  IF rows = <<>>
        THEN [r \in 1 .. Len(sheet) |-> sheet[r][col]]
        ELSE bordered(group_loop(rows, 2, rows[1], rows[1], <<>>))

apply_empty_borders(sheet, translation_col, num_cols) ==
    LET columns(cols) ==
            [r \in 1 .. Len(sheet) |->
                [c \in 1 .. Len(sheet[r]) |->
                    IF c \in DOMAIN cols THEN cols[c][r] ELSE sheet[r][c]]]
    IN  columns([c \in translation_col .. translation_col + num_cols - 1 |->
                    column_borders(sheet, c, empty_rows(sheet, c))])

\* the sheet generate leaves: the rows appended and styled, the stripes,
\* then the borders of the translation columns
styled_sheet(data, msgs, hints) ==
    apply_empty_borders(
        IF Len(data) > 1
        THEN apply_row_stripes(apply_styles(data), 2, Len(data))
        ELSE apply_styles(data),
        4,
        IF has_plurals(msgs, DictLen(plural_hints_of(hints)))
        THEN DictLen(plural_hints_of(hints))
        ELSE 1)

(***************************************************************************)
(* The import run.                                                         *)
(***************************************************************************)
TranslationsTitle == Str(<<"Translation", "s", " (", "de", ")">>)

\* convert_xlsx on the loaded workbook, po.save included
ConvertXlsx ==
    /\ pc \in {"build", "written"}
    /\ LET r == convert_xlsx(wb)
       IN  /\ raised' = r.raised
           /\ po' = r.po
           /\ saved' = IF r.raised = "none" THEN Append(saved, r.po) ELSE saved
    /\ pc' = "done"
    /\ UNCHANGED <<ws, convert_vars, process_vars>>
    /\ UNCHANGED <<import_vars, export_vars, plural_vars>>
    /\ UNCHANGED <<messages, plural_form_hints, tabledata, wb>>

\* what a cell written by ws.append reads back as: the empty string of an
\* encoded cell comes back as "" or as no value
ReadBack(v, asNone) == IF asNone /\ v = EmptyStr THEN None ELSE v

\* generate: the values of the table go to the sheet "Translations (<lang>)",
\* followed by the sheet "Metadata"
Generate ==
    /\ pc = "encoded"
    /\ \E asNone \in BOOLEAN :
          wb' = Workbook(<<
                    Sheet(TranslationsTitle,
                          [r \in 1 .. Len(tabledata) |->
                              [c \in 1 .. Len(tabledata[r]) |->
                                  ReadBack(tabledata[r][c][1], asNone)]]),
                    Sheet(Str(<<"Metadata">>), <<>>) >>)
    /\ ws' = styled_sheet(tabledata, messages, plural_form_hints)
    /\ pc' = "written"
    /\ UNCHANGED <<convert_vars, process_vars>>
    /\ UNCHANGED <<import_vars, export_vars, plural_vars>>
    /\ UNCHANGED <<messages, plural_form_hints, tabledata, po, raised, saved>>

NextRoundTrip == AppendMessage \/ GetTabledata \/ Generate \/ ConvertXlsx

SpecRoundTrip == Init /\ [][NextRoundTrip]_vars

(***************************************************************************)
(* The inputs: workbooks written by hand, a row at a time.                 *)
(***************************************************************************)
SheetTitles ==
    {<<Str(<<"NotTranslations">>)>>,
     <<Str(<<"Translation", "s">>)>>,
     <<Str(<<"Metadata">>), TranslationsTitle>>}

HeaderBase == <<Str(<<"id">>), Str(<<"Context">>), Str(<<"Singular Form">>)>>

HeaderRows ==
    {HeaderBase \o [i \in 1 .. n |->
                       IF n = 1 THEN Str(<<"Translation">>)
                       ELSE TranslationLabel(HintText(i - 1))] : n \in 0 .. MaxTrans}
        \cup {HeaderBase \o <<Str(<<"Translation">>), None>>}

CtxCells == {None, EmptyStr, Str(<<"obsolete">>), Str(<<"ctx">>)}

\* rows the decoder skips
BlankRows ==
    {<<>>, <<None>>, <<None, None, None, None>>,
     <<EmptyStr, None, MsgId(1), FormText(0)>>}

\* rows with an id, of one cell and more
IdRows ==
    {<<Num(1)>>}
        \cup {<<Num(1), c>> : c \in {None, Str(<<"obsolete">>)}}
        \cup {<<Num(1), None, s>> : s \in {None, MsgId(1)}}
        \cup {<<Num(1), c, MsgId(2), FormText(0)>> : c \in CtxCells}
        \cup {<<Num(1), None, MsgId(2), v>> : v \in {None, EmptyStr}}
        \cup UNION {{<<Num(n), None, MsgId(2)>> \o [i \in 1 .. n |-> FormText(i - 1)],
                     <<Num(n), Str(<<"obsolete">>), MsgId(2)>> \o [i \in 1 .. n |-> None],
                     <<Num(n), Str(<<"ctx">>), MsgId(2)>> \o
                         [i \in 1 .. n |-> IF i = 1 THEN EmptyStr ELSE FormText(i - 1)]} :
                    n \in 2 .. MaxTrans}

DataRows == BlankRows \cup IdRows

\* wb = Workbook(); the first sheet takes the rows
InitDec ==
    /\ pc = "build"
    /\ ImportIdle /\ ExportIdle /\ PluralIdle
    /\ SheetIdle /\ ConvertIdle /\ ProcessIdle
    /\ messages = <<>>
    /\ plural_form_hints = None
    /\ tabledata = <<>>
    /\ \E titles \in SheetTitles :
          wb = Workbook([i \in 1 .. Len(titles) |-> Sheet(titles[i], <<>>)])
    /\ po = <<>>
    /\ raised = "none"
    /\ saved = <<>>

\* ws.append(row) on the first sheet: the header, then data rows
AppendRow ==
    /\ pc = "build"
    /\ Len(wb.sheets[1].rows) < 1 + MaxRows
    /\ \E row \in (IF wb.sheets[1].rows = <<>> THEN HeaderRows ELSE DataRows) :
          wb' = [wb EXCEPT !.sheets[1].rows = Append(@, row)]
    /\ UNCHANGED <<ws, convert_vars, process_vars>>
    /\ UNCHANGED <<import_vars, export_vars, plural_vars>>
    /\ UNCHANGED <<pc, messages, plural_form_hints, tabledata, po, raised, saved>>

NextDec == AppendRow \/ ConvertXlsx

SpecDec == InitDec /\ [][NextDec]_vars

(***************************************************************************)
(* Properties of the encoder.                                              *)
(***************************************************************************)
Encoded == pc = "encoded"

NumPlurals == DictLen(plural_hints_of(plural_form_hints))

SomePlural == \E i \in 1 .. Len(messages) : is_plural(messages[i])

Header == tabledata[1]

\* the row of the i-th message
DataRow(i) == tabledata[i + 1]

\* the cells of a row that hold the message's own target texts
OwnTranslationCells(i) ==
    IF is_plural(messages[i]) THEN 4 .. Len(DataRow(i)) ELSE {4}

HasEmptyTarget(m) ==
    IF is_plural(m) THEN AnyEmpty(m.translation.msgstr)
    ELSE m.translation.msgstr = EmptyStr

TranslationColumns(header) ==
    {j \in 4 .. Len(header) : StartsWith(header[j][1], <<"Translation">>)}

\* C2: the header has exactly 4 columns, the fourth labelled plainly
\* "Translation", whenever no message is plural, whatever the number of
\* declared plural forms; it has 4 + (nplurals - 1) columns, nplurals of them
\* starting with "Translation", when a message is plural and nplurals >= 2.
C2_ColumnPlan ==
    Encoded =>
        /\ ~SomePlural =>
              /\ Len(Header) = 4
              /\ Header[4][1] = Str(<<"Translation">>)
              /\ Cardinality(TranslationColumns(Header)) = 1
        /\ (SomePlural /\ NumPlurals >= 2) =>
              /\ Len(Header) = 4 + (NumPlurals - 1)
              /\ Cardinality(TranslationColumns(Header)) = NumPlurals

\* a catalog declaring three plural forms and holding no plural message
C2_Witness ==
    /\ Encoded
    /\ Len(messages) >= 1
    /\ ~SomePlural
    /\ NumPlurals = 3
    /\ Len(Header) = 4

\* C3: the style of a message's translation cells is the obsolete style if
\* the message is obsolete, else the empty highlight if one of its target
\* texts is empty, else the default style; for singular and plural alike.
C3_StylePrecedence ==
    Encoded =>
        \A i \in 1 .. Len(messages) : \A j \in OwnTranslationCells(i) :
            DataRow(i)[j][2] =
                IF messages[i].obsolete THEN S_MSG_STR_OBSOLETE
                ELSE IF HasEmptyTarget(messages[i]) THEN S_MSG_STR_EMPTY
                ELSE S_MSG_ID

\* C4: a plural message one of whose forms has the empty target text has the
\* empty highlight on every translation-form cell of its row.
C4_PluralEmptyHighlight ==
    Encoded =>
        \A i \in 1 .. Len(messages) :
            (is_plural(messages[i]) /\ AnyEmpty(messages[i].translation.msgstr)) =>
                /\ Len(DataRow(i)) = (IF NumPlurals >= 1 THEN 3 + NumPlurals ELSE 4)
                /\ \A j \in 4 .. Len(DataRow(i)) :
                      DataRow(i)[j][2] = S_MSG_STR_EMPTY

\* a plural row of two form cells of which only one text is empty
C4_Witness ==
    /\ Encoded
    /\ NumPlurals >= 2
    /\ \E i \in 1 .. Len(messages) :
          /\ is_plural(messages[i])
          /\ AnyEmpty(messages[i].translation.msgstr)
          /\ ~AllEmpty(messages[i].translation.msgstr)
          /\ \E j \in 4 .. Len(DataRow(i)) :
                /\ DataRow(i)[j][1] # EmptyStr
                /\ DataRow(i)[j][2] = S_MSG_STR_EMPTY

\* C5 as stated: the Context cell is "obsolete" if and only if the message is
\* obsolete, and is the message's context for a message that is not.
C5_ContextCellIff ==
    Encoded =>
        \A i \in 1 .. Len(messages) :
            /\ (DataRow(i)[2][1] = Str(<<"obsolete">>)) <=> messages[i].obsolete
            /\ ~messages[i].obsolete => DataRow(i)[2][1] = messages[i].context

\* C5 amended: the Context cell is "obsolete" if the message is obsolete,
\* whatever its context, and is the message's context (None when it has none)
\* if the message is not obsolete; that context may itself read "obsolete".
C5_ContextCell ==
    Encoded =>
        \A i \in 1 .. Len(messages) :
            /\ messages[i].obsolete => DataRow(i)[2][1] = Str(<<"obsolete">>)
            /\ ~messages[i].obsolete => DataRow(i)[2][1] = messages[i].context

\* an obsolete message with a real context, shown as "obsolete"
C5_Witness ==
    /\ Encoded
    /\ \E i \in 1 .. Len(messages) :
          /\ messages[i].obsolete
          /\ messages[i].context = Str(<<"ctx">>)
          /\ DataRow(i)[2][1] = Str(<<"obsolete">>)

\* C7: the header is followed by exactly N data rows; data row i carries the
\* source text of the i-th message and the id i.
C7_OrderAndIds ==
    Encoded =>
        /\ Len(tabledata) = Len(messages) + 1
        /\ \A i \in 1 .. Len(messages) :
              /\ DataRow(i)[1][1] = Num(i)
              /\ DataRow(i)[3][1] = messages[i].translation.msgid

\* two messages encoded, in order
C7_Witness ==
    /\ Encoded
    /\ Len(messages) = 2
    /\ Len(tabledata) = 3
    /\ DataRow(2)[1][1] = Num(2)
    /\ DataRow(2)[3][1] = MsgId(2)

(***************************************************************************)
(* Properties of the decoder.                                              *)
(***************************************************************************)
Done == pc = "done"

TranslationsSheets ==
    {i \in 1 .. Len(wb.sheets) : StartsWith(wb.sheets[i].name, <<"Translation", "s">>)}

\* the rows of the first sheet named "Translations..."
SheetRows ==
    wb.sheets[CHOOSE i \in TranslationsSheets : \A j \in TranslationsSheets : i <= j].rows

\* the workbook has the sheet, with a header and a data row at least
ShapeOk == TranslationsSheets # {} /\ Len(SheetRows) >= 2

\* the data rows with an id, in grid order
IdRowsOfSheet ==
    SelectSeq(Tail(SheetRows), LAMBDA r : Len(r) > 0 /\ r[1] # None /\ r[1] # EmptyStr)

\* the number of cells the header implies
HeaderLen == Len(SheetRows[1])

\* a row with its missing cells present and empty
Padded(row, n) == [c \in 1 .. (IF Len(row) > n THEN Len(row) ELSE n) |->
                      IF c <= Len(row) THEN row[c] ELSE None]

\* C6: a decoded row whose Context cell is "obsolete" gives an obsolete entry
\* without context; any other gives an entry that is not obsolete, with the
\* cell as context, None for an empty cell.  No entry has the context
\* "obsolete".
C6_ObsoleteMapping ==
    (Done /\ ShapeOk) =>
        /\ Len(po) <= Len(IdRowsOfSheet)
        /\ \A k \in 1 .. Len(po) :
              LET cell == IdRowsOfSheet[k][2]
              IN  /\ cell = Str(<<"obsolete">>) =>
                        po[k].obsolete /\ po[k].msgctxt = None
                  /\ cell # Str(<<"obsolete">>) =>
                        /\ ~po[k].obsolete
                        /\ po[k].msgctxt =
                               IF cell = None \/ cell = EmptyStr THEN None ELSE cell
                  /\ po[k].msgctxt # Str(<<"obsolete">>)

\* a row marked obsolete and a row with a context, both decoded
C6_Witness ==
    /\ Done
    /\ ShapeOk
    /\ Len(po) = 2
    /\ IdRowsOfSheet[1][2] = Str(<<"obsolete">>)
    /\ po[1].obsolete
    /\ po[1].msgctxt = None
    /\ IdRowsOfSheet[2][2] = Str(<<"ctx">>)
    /\ po[2].msgctxt = Str(<<"ctx">>)

\* C8: one entry for each data row with an id, in grid order; nothing and no
\* error for blank rows and rows with a blank id; no deduplication.
C8_RowSkipping ==
    (Done /\ ShapeOk) =>
        /\ raised = "none"
        /\ Len(po) = Len(IdRowsOfSheet)
        /\ \A k \in 1 .. Len(po) :
              po[k].msgid = PyOr(Padded(IdRowsOfSheet[k], 3)[3], EmptyStr)
        /\ saved = <<po>>

\* C9: a row with an id and fewer cells than the header implies, of any
\* length from 1 on, is decoded without an error, its missing cells empty.
C9_ShortRowTolerance ==
    (Done /\ ShapeOk) =>
        \A k \in 1 .. Len(IdRowsOfSheet) :
            Len(IdRowsOfSheet[k]) < HeaderLen =>
                /\ raised = "none"
                /\ k <= Len(po)
                /\ po[k] = entry_of(Padded(IdRowsOfSheet[k], HeaderLen),
                                    num_translation_cols(SheetRows[1]))

\* C10: without a sheet named "Translations...", or with fewer than 2 rows in
\* it, convert_xlsx raises ConverterError and writes no PO file.
C10_ShapeErrors ==
    (Done /\ ~ShapeOk) => (raised = "ConverterError" /\ saved = <<>> /\ po = <<>>)

\* the sheet is there and holds its header only
C10_Witness ==
    /\ Done
    /\ TranslationsSheets # {}
    /\ Len(SheetRows) = 1
    /\ raised = "ConverterError"
    /\ saved = <<>>

(***************************************************************************)
(* The round trip.                                                         *)
(***************************************************************************)
\* (context, source text, target text or form -> text map, obsolete)
MessageTuple(m) ==
    <<m.context, m.translation.msgid, m.translation.msgstr, m.obsolete>>

EntryTuple(e) ==
    <<e.msgctxt, e.msgid,
      IF e.msgstr_plural # EmptyDict THEN e.msgstr_plural ELSE e.msgstr,
      e.obsolete>>

\* a catalog of the kinds the round trip is stated for: its plural entries
\* have the declared number of forms, two at least, no context reads
\* "obsolete", and an obsolete entry has no context to lose
RoundTripCatalog ==
    /\ Len(messages) >= 1
    /\ \A i \in 1 .. Len(messages) :
          /\ messages[i].context # Str(<<"obsolete">>)
          /\ messages[i].obsolete => messages[i].context = None
          /\ is_plural(messages[i]) =>
                /\ NumPlurals >= 2
                /\ DOMAIN messages[i].translation.msgstr.d = 0 .. NumPlurals - 1

\* C1: decoding the encoded grid yields, in order, entries with the tuples
\* of the input; a singular entry stays singular and an empty target text
\* stays the empty string.
C1_RoundTrip ==
    (Done /\ RoundTripCatalog) =>
        /\ raised = "none"
        /\ Len(po) = Len(messages)
        /\ \A i \in 1 .. Len(messages) : EntryTuple(po[i]) = MessageTuple(messages[i])

(***************************************************************************)
(* The import command: Excel2PoConverter.run converts options.xlsx_file    *)
(* in order (cli/xop_convert.py, cli/main.py).                             *)
(***************************************************************************)
MaxFiles == 3       \* files of one batch

\* the files of a batch: two well-formed ones, one without the sheet
\* "Translations...", one whose sheet has the header only
BatchWorkbooks ==
    {Workbook(<<Sheet(TranslationsTitle,
                      <<HeaderBase \o <<Str(<<"Translation">>)>>,
                        <<Num(1), None, MsgId(k), FormText(0)>> >>)>>) : k \in 1 .. 2}
        \cup {Workbook(<<Sheet(Str(<<"Metadata">>), <<>>)>>),
              Workbook(<<Sheet(TranslationsTitle,
                               <<HeaderBase \o <<Str(<<"Translation">>)>> >>)>>)}

\* pox import <xlsx_file ...>: main builds the converter and calls run
InitImport ==
    /\ pc = "run"
    /\ messages = <<>>
    /\ plural_form_hints = None
    /\ tabledata = <<>>
    /\ wb = NoWorkbook
    /\ po = <<>>
    /\ raised = "none"
    /\ saved = <<>>
    /\ \E k \in 1 .. MaxFiles : xlsx_file \in [1 .. k -> BatchWorkbooks]
    /\ file_pos = 1
    /\ written = {}
    /\ ExportIdle /\ PluralIdle
    /\ SheetIdle /\ ConvertIdle /\ ProcessIdle

\* one turn of the loop of run: convert_xlsx on the next file.  Nothing in
\* run catches what convert_xlsx raises: the exception leaves the loop, and
\* main ends the process (sys.exit(1) for a ConverterError)
RunConvertXlsx ==
    /\ pc = "run"
    /\ file_pos <= Len(xlsx_file)
    /\ LET r == convert_xlsx(xlsx_file[file_pos])
       IN  /\ wb' = xlsx_file[file_pos]
           /\ raised' = r.raised
           /\ po' = r.po
           /\ saved' = IF r.raised = "none" THEN Append(saved, r.po) ELSE saved
           /\ written' = IF r.raised = "none" THEN written \cup {file_pos} ELSE written
           /\ pc' = IF r.raised = "none" THEN "run" ELSE "exit"
    /\ file_pos' = file_pos + 1
    /\ UNCHANGED <<ws, convert_vars, process_vars>>
    /\ UNCHANGED <<messages, plural_form_hints, tabledata, xlsx_file>>
    /\ UNCHANGED <<export_vars, plural_vars>>

\* the loop of run is over: run returns
RunReturn ==
    /\ pc = "run"
    /\ file_pos > Len(xlsx_file)
    /\ pc' = "done"
    /\ UNCHANGED <<ws, convert_vars, process_vars>>
    /\ UNCHANGED <<messages, plural_form_hints, tabledata, wb, po, raised, saved>>
    /\ UNCHANGED <<import_vars, export_vars, plural_vars>>

NextImport == RunConvertXlsx \/ RunReturn

SpecImport == InitImport /\ [][NextImport]_vars

(***************************************************************************)
(* Properties of the import command.                                       *)
(***************************************************************************)
\* the import command is over: run returned or an exception left it
ImportOver == pc \in {"done", "exit"} /\ xlsx_file # <<>>

\* the workbook has the sheet, with a header and a data row at least
WellFormed(workbook) ==
    LET ts == {i \in 1 .. Len(workbook.sheets) :
                  StartsWith(workbook.sheets[i].name, <<"Translation", "s">>)}
    IN  /\ ts # {}
        /\ Len(workbook.sheets[CHOOSE i \in ts : \A j \in ts : i <= j].rows) >= 2

\* C11: when the import command is over, every well-formed file of the
\* batch is converted and its PO file written, whatever shape errors the
\* other files of the batch have and wherever they are listed.
C11_ImportBatchIsolation ==
    ImportOver =>
        \A i \in 1 .. Len(xlsx_file) : WellFormed(xlsx_file[i]) => i \in written

(***************************************************************************)
(* The plural formula engine (plural_parser.py).                           *)
(*                                                                         *)
(* A formula is a string of characters; text[i] of the code is             *)
(* Ch(text, i + 1), and the lexer's pos counts from 1.  An exception is a  *)
(* record of its type and message; the parser carries it in the field err  *)
(* and every step after a raise leaves the parser as it is.                *)
(***************************************************************************)
Ch(text, i) == SubSeq(text, i, i)

\* current_char is None at the end of the text
NoChar == ""

NoError == [type |-> "none", msg |-> ""]
ValueError(msg) == [type |-> "ValueError", msg |-> msg]
ZeroDivisionError == [type |-> "ZeroDivisionError", msg |-> "division by zero"]
IndexError == [type |-> "IndexError", msg |-> "list index out of range"]
KeyError == [type |-> "KeyError", msg |-> ""]

\* str.isdigit, str.isalpha and str.isspace on the characters of the model
DigitChars == {"0", "1", "2", "3", "4", "5", "6", "7", "8", "9"}

AlphaChars ==
    {"a", "b", "c", "d", "e", "f", "g", "h", "i", "j", "k", "l", "m",
     "n", "o", "p", "q", "r", "s", "t", "u", "v", "w", "x", "y", "z",
     "A", "B", "C", "D", "E", "F", "G", "H", "I", "J", "K", "L", "M",
     "N", "O", "P", "Q", "R", "S", "T", "U", "V", "W", "X", "Y", "Z"}

SpaceChars == {" ", "\t"}

OP_TYPES ==
    ("+" :> "ADD") @@ ("-" :> "SUB") @@ ("*" :> "MUL") @@ ("/" :> "DIV")
        @@ ("(" :> "LPAREN") @@ (")" :> "RPAREN") @@ ("%" :> "MOD")
        @@ ("^" :> "POW")

CmpChars == {"<", ">", "=", "!", "?", ":", "&", "|"}

Token(type_, value) == [type |-> type_, value |-> value]

Lexer(text) == [text |-> text, pos |-> 1]

current_char(lx) == IF lx.pos > Len(lx.text) THEN NoChar ELSE Ch(lx.text, lx.pos)

advance(lx) == [lx EXCEPT !.pos = @ + 1]

\* what a method of the lexer leaves: the lexer, the exception, the token
Lexed(lx, tok) == [lexer |-> lx, err |-> NoError, tok |-> tok]

\* Lexer.error
lexer_error(lx) ==
    [lexer |-> lx, err |-> ValueError("Invalid character"), tok |-> Token("EOF", None)]

\* the position after the run of characters of a class that starts at pos
RECURSIVE run_end(_, _, _)
run_end(text, pos, class) ==
    IF pos <= Len(text) /\ Ch(text, pos) \in class
    THEN run_end(text, pos + 1, class)
    ELSE pos

\* int(num_str) of a string of digits
RECURSIVE int_of_digits(_)
int_of_digits(num_str) ==
    IF num_str = ""
    THEN 0
    ELSE int_of_digits(SubSeq(num_str, 1, Len(num_str) - 1)) * 10
            + (CHOOSE d \in 0 .. 9 : Digit(d) = Ch(num_str, Len(num_str)))

get_integer(lx) ==
    LET end == run_end(lx.text, lx.pos, DigitChars)
    IN  Lexed([lx EXCEPT !.pos = end],
              Token("INTEGER", int_of_digits(SubSeq(lx.text, lx.pos, end - 1))))

get_variable(lx) ==
    LET end == run_end(lx.text, lx.pos, AlphaChars)
        var_str == SubSeq(lx.text, lx.pos, end - 1)
    IN  IF var_str # "n"
        THEN lexer_error([lx EXCEPT !.pos = end])
        ELSE Lexed([lx EXCEPT !.pos = end], Token("VARIABLE", var_str))

get_cmp(lx) ==
    LET cmp_str == current_char(lx)
        l1 == advance(lx)
        l2 == advance(l1)
        next_char == current_char(l1)
    IN  CASE cmp_str = "=" /\ next_char = "=" -> Lexed(l2, Token("CMP_EQ", None))
          [] cmp_str = "!" ->
                IF next_char = "="
                THEN Lexed(l2, Token("CMP_NEQ", None))
                ELSE Lexed(l1, Token("OP_NOT", None))
          [] cmp_str \in {"<", ">"} ->
                LET type_ == IF cmp_str = "<" THEN "CMP_LT" ELSE "CMP_GT"
                IN  IF next_char = "="
                    THEN Lexed(l2, Token(type_ \o "E", None))
                    ELSE Lexed(l1, Token(type_, None))
          [] cmp_str = "?" -> Lexed(l1, Token("TERN", None))
          [] cmp_str = ":" -> Lexed(l1, Token("TERN_ELSE", None))
          [] OTHER ->
                IF next_char # cmp_str
                THEN lexer_error(l1)
                ELSE Lexed(l2, Token(IF cmp_str = "&" THEN "OP_AND" ELSE "OP_OR", None))

get_token(lx) ==
    LET l0 == [lx EXCEPT !.pos = run_end(lx.text, lx.pos, SpaceChars)]
        c == current_char(l0)
    IN  CASE c = NoChar -> Lexed(l0, Token("EOF", None))
          [] c \in DigitChars -> get_integer(l0)
          [] c \in AlphaChars -> get_variable(l0)
          [] c \in DOMAIN OP_TYPES -> Lexed(advance(l0), Token(OP_TYPES[c], None))
          [] c \in CmpChars -> get_cmp(l0)
          [] OTHER -> lexer_error(l0)

\* the integer a bool or an int counts as in arithmetic and comparisons
IntOf(v) == IF v.t = "bool" THEN (IF v.b THEN 1 ELSE 0) ELSE v.v

\* a // b and a % b of Python, b # 0
PyFloorDivTrunc(a, b) ==
    IF (a >= 0) = (b > 0)
    THEN (IF a >= 0 THEN a ELSE -a) \div (IF b > 0 THEN b ELSE -b)
    ELSE -((IF a >= 0 THEN a ELSE -a) \div (IF b > 0 THEN b ELSE -b))

PyFloorDiv(a, b) == IF b > 0 THEN a \div b ELSE (-a) \div (-b)

PyMod(a, b) == a - b * PyFloorDiv(a, b)

\* a ** b, b >= 0
RECURSIVE PyPow(_, _)
PyPow(a, b) == IF b = 0 THEN 1 ELSE a * PyPow(a, b - 1)

\* the result of a ** b with b < 0: a float
Float == [t |-> "float"]

\* result *= rhs, result //= rhs, result %= rhs, result **= rhs
Arith(type_, result, rhs) ==
    CASE type_ = "MUL" -> Num(IntOf(result) * IntOf(rhs))
      [] type_ = "DIV" -> Num(PyFloorDiv(IntOf(result), IntOf(rhs)))
      [] type_ = "MOD" -> Num(PyMod(IntOf(result), IntOf(rhs)))
      [] type_ = "POW" ->
            IF IntOf(rhs) >= 0 THEN Num(PyPow(IntOf(result), IntOf(rhs))) ELSE Float
      [] type_ = "ADD" -> Num(IntOf(result) + IntOf(rhs))
      [] type_ = "SUB" -> Num(IntOf(result) - IntOf(rhs))

\* the operation raises ZeroDivisionError
DividesByZero(type_, result, rhs) ==
    \/ type_ \in {"DIV", "MOD"} /\ IntOf(rhs) = 0
    \/ type_ = "POW" /\ IntOf(rhs) < 0 /\ IntOf(result) = 0

CmpTypes == {"CMP_EQ", "CMP_NEQ", "CMP_LTE", "CMP_GTE", "CMP_LT", "CMP_GT"}

\* result == rhs, result != rhs, ...
Compare(type_, result, rhs) ==
    CASE type_ = "CMP_EQ" -> Bool(IntOf(result) = IntOf(rhs))
      [] type_ = "CMP_NEQ" -> Bool(IntOf(result) # IntOf(rhs))
      [] type_ = "CMP_LTE" -> Bool(IntOf(result) <= IntOf(rhs))
      [] type_ = "CMP_GTE" -> Bool(IntOf(result) >= IntOf(rhs))
      [] type_ = "CMP_LT" -> Bool(IntOf(result) < IntOf(rhs))
      [] type_ = "CMP_GT" -> Bool(IntOf(result) > IntOf(rhs))

\* not v, a and b
PyNot_same(v) == Bool(Truthy(v))

PyNot(v) == Bool(~Truthy(v))
PyAnd(a, b) == IF Truthy(a) THEN b ELSE a

\* Parser.__init__: the first token is read
Parser(lx) ==
    LET read(r) == [lexer |-> r.lexer, current_token |-> r.tok, err |-> r.err]
    IN  read(get_token(lx))

Raise(p, exc) == [p EXCEPT !.err = exc]

\* what a method of the parser leaves: the parser and the value returned
Result(p, v) == [p |-> p, v |-> v]

\* Parser.error
parser_error(p) == Raise(p, ValueError("Invalid syntax"))

\* Parser.eat; token_type "" stands for no token_type
eat(p, token_type) ==
    IF p.err # NoError
    THEN p
    ELSE IF token_type # "" /\ p.current_token.type # token_type
         THEN parser_error(p)
         ELSE LET read(r) ==
                      [lexer |-> r.lexer, current_token |-> r.tok, err |-> r.err]
              IN  read(get_token(p.lexer))

RECURSIVE Parser_parse(_, _)
RECURSIVE parse_expression(_, _)

factor(p, variables) ==
    LET token == p.current_token
    IN  IF p.err # NoError
        THEN Result(p, None)
        ELSE CASE token.type = "LPAREN" ->
                    LET closed(r) == Result(eat(r.p, "RPAREN"), r.v)
                    IN  closed(Parser_parse(eat(p, "LPAREN"), variables))
               [] token.type = "INTEGER" ->
                    Result(eat(p, "INTEGER"), Num(token.value))
               [] token.type = "VARIABLE" ->
                    LET bound(q) ==
                            IF q.err = NoError /\ token.value \notin DOMAIN variables
                            THEN Result(Raise(q, ValueError("Variable not defined")), None)
                            ELSE Result(q, IF q.err = NoError
                                           THEN variables[token.value] ELSE None)
                    IN  bound(eat(p, "VARIABLE"))
               [] OTHER -> Result(parser_error(p), None)

\* the while loop of term
RECURSIVE term_loop(_, _, _)
term_loop(p, result, variables) ==
    IF p.err # NoError \/ p.current_token.type \notin {"MUL", "DIV", "MOD", "POW"}
    THEN Result(p, result)
    ELSE LET token == p.current_token
             applied(r) ==
                 IF r.p.err # NoError
                 THEN r
                 ELSE IF DividesByZero(token.type, result, r.v)
                      THEN Result(Raise(r.p, ZeroDivisionError), None)
                      ELSE term_loop(r.p, Arith(token.type, result, r.v), variables)
         IN  applied(factor(eat(p, token.type), variables))

term(p, variables) ==
    LET looped(r) == term_loop(r.p, r.v, variables)
    IN  looped(factor(p, variables))

\* the while loop of parse_expression over ADD and SUB
RECURSIVE additive_loop(_, _, _)
additive_loop(p, result, variables) ==
    IF p.err # NoError \/ p.current_token.type \notin {"ADD", "SUB"}
    THEN Result(p, result)
    ELSE LET token == p.current_token
             applied(r) ==
                 IF r.p.err # NoError
                 THEN r
                 ELSE additive_loop(r.p, Arith(token.type, result, r.v), variables)
         IN  applied(term(eat(p, token.type), variables))

\* the comparison of parse_expression: its right operand is a term
comparison(p, result, variables) ==
    IF p.err # NoError \/ p.current_token.type \notin CmpTypes
    THEN Result(p, result)
    ELSE LET token == p.current_token
             compared(r) ==
                 IF r.p.err # NoError
                 THEN r
                 ELSE Result(r.p, Compare(token.type, result, r.v))
         IN  compared(term(eat(p, token.type), variables))

\* the while loop of parse_expression over OP_AND and OP_OR
RECURSIVE logical_loop(_, _, _)
logical_loop(p, result, variables) ==
    IF p.err # NoError \/ p.current_token.type \notin {"OP_AND", "OP_OR"}
    THEN Result(p, result)
    ELSE LET token == p.current_token
             applied(r) ==
                 IF r.p.err # NoError
                 THEN r
                 ELSE IF token.type = "OP_AND"
                      THEN logical_loop(r.p, PyAnd(result, r.v), variables)
                      ELSE Result(r.p, PyOr(result, r.v))
         IN  applied(parse_expression(eat(p, ""), variables))

parse_expression(p, variables) ==
    IF p.err # NoError
    THEN Result(p, None)
    ELSE IF p.current_token.type = "OP_NOT"
         THEN LET negated(r) == IF r.p.err # NoError THEN r ELSE Result(r.p, PyNot(r.v))
              IN  negated(parse_expression(eat(p, "OP_NOT"), variables))
         ELSE LET logical(c) == logical_loop(c.p, c.v, variables)
                  compared(a) == logical(comparison(a.p, a.v, variables))
                  added(t) == compared(additive_loop(t.p, t.v, variables))
              IN  added(term(p, variables))

Parser_parse_flat(p, variables) ==
    LET chosen(result, if_true, if_false) ==
            IF if_false.p.err # NoError
            THEN Result(if_false.p, None)
            ELSE Result(if_false.p,
                        IF Truthy(result.v) THEN if_true.v ELSE if_false.v)
        branches(result, if_true) ==
            chosen(result, if_true,
                   parse_expression(eat(if_true.p, "TERN_ELSE"), variables))
        ternary(result) ==
            IF result.p.err = NoError /\ result.p.current_token.type = "TERN"
            THEN branches(result, parse_expression(eat(result.p, "TERN"), variables))
            ELSE result
    IN  ternary(parse_expression(p, variables))

\* Parser.parse
Parser_parse(p, variables) ==
    LET chosen(result, if_true, if_false) ==
            IF if_false.p.err # NoError
            THEN Result(if_false.p, None)
            ELSE Result(if_false.p,
                        IF Truthy(result.v) THEN if_true.v ELSE if_false.v)
        branches(result, if_true) ==
            chosen(result, if_true,
                   Parser_parse(eat(if_true.p, "TERN_ELSE"), variables))
        ternary(result) ==
            IF result.p.err = NoError /\ result.p.current_token.type = "TERN"
            THEN branches(result, Parser_parse(eat(result.p, "TERN"), variables))
            ELSE result
    IN  ternary(parse_expression(p, variables))

\* the keyword arguments of parse: none, or n
NoVariables == <<>>
Variables(i) == [n |-> Num(i)]

\* parse(_expr, **variables): the value returned, or the exception raised
parse(expr, variables) ==
    LET outcome(r) ==
            [raised |-> r.p.err.type, msg |-> r.p.err.msg,
             value |-> IF r.p.err = NoError THEN r.v ELSE None]
    IN  outcome(Parser_parse(Parser(Lexer(expr)), variables))

(***************************************************************************)
(* Strings of Python: find, split, strip, str(int), int(str).              *)
(***************************************************************************)
\* the first position from i on where s has the character c, 0 if none
RECURSIVE Find(_, _, _)
Find(s, c, i) ==
    IF i > Len(s) THEN 0 ELSE IF Ch(s, i) = c THEN i ELSE Find(s, c, i + 1)

\* s.split(c)
RECURSIVE Split(_, _)
Split(s, c) ==
    LET i == Find(s, c, 1)
    IN  IF i = 0
        THEN <<s>>
        ELSE <<SubSeq(s, 1, i - 1)>> \o Split(SubSeq(s, i + 1, Len(s)), c)

\* s.strip()
RECURSIVE Strip(_)
Strip(s) ==
    IF s # "" /\ Ch(s, 1) \in SpaceChars
    THEN Strip(SubSeq(s, 2, Len(s)))
    ELSE IF s # "" /\ Ch(s, Len(s)) \in SpaceChars
         THEN Strip(SubSeq(s, 1, Len(s) - 1))
         ELSE s

SliceAll(s, n) == s

\* s[:n], n >= 0
Slice(s, n) == SubSeq(s, 1, IF n < Len(s) THEN n ELSE Len(s))

\* str(i), i >= 0
RECURSIVE Decimal(_)
Decimal(i) == IF i < 10 THEN Digit(i) ELSE Decimal(i \div 10) \o Digit(i % 10)

\* int(s) accepts s: a string of digits (signs and underscores are not
\* among the inputs)
IsIntLiteral(s) == s # "" /\ \A i \in 1 .. Len(s) : Ch(s, i) \in DigitChars

(***************************************************************************)
(* parse_line and group (plural_parser.py).                                *)
(***************************************************************************)
\* parse_line(line): nplurals and expr, or the exception raised
parse_line(line) ==
    LET parts == Split(line, ";")
        nplurals_parts == Split(parts[1], "=")
        nplurals_str == Strip(nplurals_parts[2])
        eq == Find(parts[2], "=", 1)
        failed(exc) == [err |-> exc, nplurals |-> 0, expr |-> ""]
    IN  IF Len(parts) < 2
        THEN failed(ValueError("not enough values to unpack"))
        ELSE IF Len(nplurals_parts) < 2
             THEN failed(IndexError)
             ELSE IF ~IsIntLiteral(nplurals_str)
                  THEN failed(ValueError("invalid literal for int()"))
                  ELSE IF eq = 0
                       THEN failed(IndexError)
                       ELSE [err |-> NoError,
                             nplurals |-> int_of_digits(nplurals_str),
                             expr |-> Strip(SubSeq(parts[2], eq + 1, Len(parts[2])))]

MaxN == 24          \* n of parse and max_n of group (999 when the caller gives none)

\* per_group of group when the caller gives none
DefaultPerGroup == 5

\* list(group(plural_line, max_n, per_group)): the entries yielded, or the
\* exception raised.  The loop over range(max_n + 1) ends at the first i
\* whose parse raises or whose result is no key of groups
group(plural_line, max_n, per_group) ==
    LET failed(type_, msg) == [raised |-> type_, msg |-> msg, value |-> <<>>]
        yielded(nplurals, results) ==
            LET is_key(v) == v.t \in {"int", "bool"} /\ IntOf(v) \in 0 .. nplurals - 1
                failing == {i \in 0 .. max_n :
                               results[i].raised # "none" \/ ~is_key(results[i].value)}
                first == CHOOSE i \in failing : \A j \in failing : i <= j
                grp(g) == SelectSeq([k \in 1 .. max_n + 1 |-> k - 1],
                                    LAMBDA i : IntOf(results[i].value) = g)
            IN  IF failing # {}
                THEN IF results[first].raised # "none"
                     THEN failed(results[first].raised, results[first].msg)
                     ELSE failed(KeyError.type, KeyError.msg)
                ELSE [raised |-> "none", msg |-> "",
                      value |-> [k \in 1 .. nplurals |->
                                    [group |-> k - 1,
                                     values |-> Slice(grp(k - 1), per_group),
                                     has_more |-> Len(grp(k - 1)) > per_group]]]
        enumerated(pl) ==
            IF pl.err # NoError
            THEN failed(pl.err.type, pl.err.msg)
            ELSE yielded(pl.nplurals,
                         [i \in 0 .. max_n |-> parse(pl.expr, Variables(i))])
    IN  enumerated(parse_line(plural_line))

(***************************************************************************)
(* The hints of the plural forms (plurals.py).                             *)
(***************************************************************************)
\* the text of a string value: its segments, joined
RECURSIVE Concat(_)
Concat(segs) == IF segs = <<>> THEN "" ELSE Head(segs) \o Concat(Tail(segs))

Text(v) == Concat(v.s)

\* the digits of the match of nplurals=(?P<num>\d+); that starts at i, ""
\* if there is none
plural_count_at(s, i) ==
    LET d == i + Len("nplurals=")
        end == run_end(s, d, DigitChars)
    IN  IF /\ d - 1 <= Len(s)
           /\ SubSeq(s, i, d - 1) = "nplurals="
           /\ end > d
           /\ end <= Len(s)
           /\ Ch(s, end) = ";"
        THEN SubSeq(s, d, end - 1)
        ELSE ""

RE_PLURAL_COUNT_search_loose(s) ==
    LET at(i) == SubSeq(s, i + Len("nplurals="),
                        run_end(s, i + Len("nplurals="), DigitChars) - 1)
        starts == {i \in 1 .. Len(s) - Len("nplurals=") :
                      SubSeq(s, i, i + Len("nplurals=") - 1) = "nplurals=" /\ at(i) # ""}
    IN  IF starts = {} THEN "" ELSE at(CHOOSE i \in starts : \A j \in starts : i <= j)

\* RE_PLURAL_COUNT.search(s): the group num of the leftmost match, "" if
\* there is no match
RE_PLURAL_COUNT_search(s) ==
    LET starts == {i \in 1 .. Len(s) : plural_count_at(s, i) # ""}
    IN  IF starts = {}
        THEN ""
        ELSE plural_count_at(s, CHOOSE i \in starts : \A j \in starts : i <= j)

MAX_RANGE_PARTS == 2

\* str(start) if start == prev else f"{start}-{prev}"
range_part(start, prev) ==
    IF start = prev THEN Decimal(start) ELSE Decimal(start) \o "-" \o Decimal(prev)

\* the loop of _format_values over values[1:], from values[k] on
RECURSIVE format_loop(_, _, _, _, _)
format_loop(values, k, start, prev, parts) ==
    IF k > Len(values)
    THEN Append(parts, range_part(start, prev))
    ELSE IF values[k] = prev + 1
         THEN format_loop(values, k + 1, start, values[k], parts)
         ELSE format_loop(values, k + 1, values[k], values[k],
                          Append(parts, range_part(start, prev)))

\* ", ".join(parts)
RECURSIVE JoinComma(_)
JoinComma(parts) ==
    IF parts = <<>>
    THEN ""
    ELSE IF Len(parts) = 1
         THEN parts[1]
         ELSE parts[1] \o ", " \o JoinComma(Tail(parts))

format_values_no_count(values, has_more) ==
    IF values = <<>>
    THEN ""
    ELSE LET parts == format_loop(values, 2, values[1], values[1], <<>>)
         IN  JoinComma(Slice(parts, MAX_RANGE_PARTS))
                \o (IF has_more THEN ", ..." ELSE "")

\* _format_values(values, has_more)
format_values(values, has_more) ==
    IF values = <<>>
    THEN ""
    ELSE LET parts == format_loop(values, 2, values[1], values[1], <<>>)
             truncated == Len(parts) > MAX_RANGE_PARTS \/ has_more
         IN  JoinComma(Slice(parts, MAX_RANGE_PARTS))
                \o (IF truncated THEN ", ..." ELSE "")

\* per_group of the call of group in get_plural_hints
HintsPerGroup == 1000

\* the exceptions get_plural_hints catches
CaughtByHints == {"ValueError", "TypeError", "KeyError"}

\* get_plural_hints(plural_form): the hints returned or the exception
\* raised, and whether group was called
get_plural_hints(plural_form) ==
    LET default_form == Dict((0 :> Str(<<"Singular">>)) @@ (1 :> Str(<<"Plural">>)))
        label(e) ==
            (IF \E k \in 1 .. Len(e.values) : e.values[k] = 1
             THEN "Singular" ELSE "Plural")
                \o ", n = " \o format_values(e.values, e.has_more)
        returned(hints, grouped) ==
            [raised |-> "none", msg |-> "", value |-> hints, grouped |-> grouped]
        hinted(num, g) ==
            IF g.raised = "none"
            THEN returned(Dict([i \in 0 .. Len(g.value) - 1 |->
                                   Str(<<label(g.value[i + 1])>>)]), TRUE)
            ELSE IF g.raised \in CaughtByHints
                 THEN returned(Dict([i \in 0 .. int_of_digits(num) - 1 |->
                                        Str(<<"Plural Form " \o Decimal(i + 1)>>)]),
                               TRUE)
                 ELSE [raised |-> g.raised, msg |-> g.msg, value |-> None,
                       grouped |-> TRUE]
        matched(num) ==
            IF num = ""
            THEN returned(default_form, FALSE)
            ELSE hinted(num, group(Text(plural_form), MaxN, HintsPerGroup))
    IN  IF ~Truthy(plural_form)
        THEN returned(default_form, FALSE)
        ELSE matched(RE_PLURAL_COUNT_search(Text(plural_form)))

(***************************************************************************)
(* The inputs of the formula engine.                                       *)
(***************************************************************************)
MaxValue == 7       \* the values given to _format_values are among 0 .. MaxValue

\* formulas with a character, a lone & or |, or a name the lexer rejects
LexFormulas ==
    {"x != 1", "n & 1", "n | 1", "n @ 1", "@", "nn", "1 $", "n == 1 ? 0 : x",
     "(1) x", "1 1 @", "n n x", "1 1 & 0", "n) | 1", "1 2 y"}

\* formulas of a wrong structure
SyntaxFormulas ==
    {"", " ", "+", "* 2", "- 1", "(1", "(n", "((1)", "1)", "n)", "(n))", "1 (2",
     "()", "n +", "n ? 1", "n ? 1 :", "n == ", "1 2", "!", "n = 1"}

\* formulas of the tests and of the catalogs
TestFormulas ==
    {"n", "10", "007", "n != 1", "n > 1", "n >= 2", "n < 2", "n <= 1",
     "n + 1", "n - 1 - 1", "n * 2 + 1", "n / 2", "n % 10", "n ^ 2", "n / 2 / 2",
     "!0", "!1", "!n", "n && 2", "0 || 5", "n && 0 || 1", "n == 1 + 1",
     "7 / n", "7 % n", "n == 0 ? 0 : 10 / n", "n ? 1 : 2 + 1", "1 + (n ? 1 : 2)",
     "n > 1 ? n > 2 ? 2 : 1 : 0", "n<1?0:1",
     "n%10==1 && n%100!=11 ? 0 : n%10>=2 && n%10<=4 && (n%100<10 || n%100>=20) ? 1 : 2"}

\* the conditions and the branches of the ternaries, with what they mean
Conds ==
    {"(n == 1)", "(n == 2)", "n == 1", "n % 10 == 1 && n % 100 != 11",
     "n != 0", "n > 1 || n == 0", "n"}

CondHolds(c, n) ==
    CASE c = "(n == 1)" -> n = 1
      [] c = "(n == 2)" -> n = 2
      [] c = "n == 1" -> n = 1
      [] c = "n % 10 == 1 && n % 100 != 11" -> n % 10 = 1 /\ n % 100 # 11
      [] c = "n != 0" -> n # 0
      [] c = "n > 1 || n == 0" -> n > 1 \/ n = 0
      [] c = "n" -> n # 0

Branches == {<<0, 1, 2>>, <<2, 0, 1>>}

TernText(c1, a, c2, b, c) ==
    c1 \o " ? " \o Decimal(a) \o " : " \o c2 \o " ? " \o Decimal(b) \o " : " \o Decimal(c)

TernFormulas ==
    {TernText(c1, v[1], c2, v[2], v[3]) : c1 \in Conds, c2 \in Conds, v \in Branches}

\* the operands of the divisions, with what they mean
Operands == {"n", "n - 5", "0 - n", "0 - 3", "2", "10"}

OperandValue(x, n) ==
    CASE x = "n" -> n
      [] x = "n - 5" -> n - 5
      [] x = "0 - n" -> 0 - n
      [] x = "0 - 3" -> 0 - 3
      [] x = "2" -> 2
      [] x = "10" -> 10

DivText(x, y) == "(" \o x \o ") / (" \o y \o ")"
ModText(x, y) == "(" \o x \o ") % (" \o y \o ")"
IdentityText(x, y) == DivText(x, y) \o " * (" \o y \o ") + " \o ModText(x, y)

DivFormulas ==
    UNION {{DivText(x, y), ModText(x, y), IdentityText(x, y)} :
              x \in Operands, y \in Operands}

\* chains of && and ||: the operands, with what they mean
LogicOperands == {"0", "1", "n != 1"}

LogicHolds(x, n) ==
    CASE x = "0" -> FALSE
      [] x = "1" -> TRUE
      [] x = "n != 1" -> n # 1

AndOrText(a, b, c) == a \o " && " \o b \o " || " \o c
OrAndText(a, b, c) == a \o " || " \o b \o " && " \o c

LogicFormulas ==
    UNION {{AndOrText(a, b, c), OrAndText(a, b, c)} :
              a \in LogicOperands, b \in LogicOperands, c \in LogicOperands}

\* && and || on integers
LogicIntegers == {0, 2, 3, 5}

AndText(a, b) == Decimal(a) \o " && " \o Decimal(b)
OrText(a, b) == Decimal(a) \o " || " \o Decimal(b)

IntLogicFormulas ==
    UNION {{AndText(a, b), OrText(a, b)} : a \in LogicIntegers, b \in LogicIntegers}

\* comparisons of n with a sum
CmpOps == {"==", "!=", "<", "<=", ">", ">="}

CmpHolds(op, x, y) ==
    CASE op = "==" -> x = y
      [] op = "!=" -> x # y
      [] op = "<" -> x < y
      [] op = "<=" -> x <= y
      [] op = ">" -> x > y
      [] op = ">=" -> x >= y

CmpAddText(op, b, c) == "n " \o op \o " " \o Decimal(b) \o " + " \o Decimal(c)

Addends == {<<1, 1>>, <<2, 3>>}

CmpAddFormulas == {CmpAddText(op, v[1], v[2]) : op \in CmpOps, v \in Addends}

\* expressions without a ternary at their top, with when they are zero or
\* false
NotOperands ==
    {"0", "1", "n", "n == 1", "n != 1", "n % 10", "n - 1", "n - 1 == 0",
     "n && 0", "0 || n", "n > 1 && n < 5", "(n ? 0 : 1)"}

IsZero(e, n) ==
    CASE e = "0" -> TRUE
      [] e = "1" -> FALSE
      [] e = "n" -> n = 0
      [] e = "n == 1" -> n # 1
      [] e = "n != 1" -> n = 1
      [] e = "n % 10" -> n % 10 = 0
      [] e = "n - 1" -> n = 1
      [] e = "n - 1 == 0" -> n # 1
      [] e = "n && 0" -> TRUE
      [] e = "0 || n" -> n = 0
      [] e = "n > 1 && n < 5" -> ~(n > 1 /\ n < 5)
      [] e = "(n ? 0 : 1)" -> n # 0

NotText(e) == "!" \o e

NotFormulas == {NotText(e) : e \in NotOperands}

Formulas == LexFormulas \cup SyntaxFormulas \cup TestFormulas
                \cup TernFormulas \cup DivFormulas \cup LogicFormulas
                \cup IntLogicFormulas \cup CmpAddFormulas \cup NotFormulas

VariableChoices == {NoVariables} \cup {Variables(i) : i \in 0 .. MaxN}

\* Plural-Forms headers that declare nplurals: the count and the formula
PluralForms ==
    {<<2, "n != 1">>, <<2, "(n != 1)">>, <<3, "n==1 ? 0 : n==2 ? 1 : 2">>,
     <<3, "(n%10==1 && n%100!=11 ? 0 : n%10>=2 && n%10<=4 && (n%100<10 || n%100>=20) ? 1 : 2)">>,
     <<6, "(n==0 ? 0 : n==1 ? 1 : n==2 ? 2 : n%100>=3 && n%100<=10 ? 3 : n%100>=11 ? 4 : 5)">>,
     <<1, "0">>, <<3, "n != 1">>, <<2, "n % 2">>, <<2, "n > 1 ? 1 : 0">>,
     <<3, "@@@">>, <<2, "x != 1">>, <<2, "(n">>, <<2, "n">>, <<10, "n">>,
     <<2, "0 - 1">>, <<2, "n % 0">>, <<2, "1 / n">>}

HeaderOf(nplurals, expr) ==
    "nplurals=" \o Decimal(nplurals) \o "; plural=" \o expr \o ";"

\* the declaration alone, and the declaration after another field
CountOnly(nplurals) == "nplurals=" \o Decimal(nplurals) \o ";"
Prefixed(nplurals, expr) == "x; " \o HeaderOf(nplurals, expr)

\* the headers with a declaration: the line, the count and the formula
CountedHeaders ==
    {[line |-> HeaderOf(f[1], f[2]), nplurals |-> f[1], expr |-> f[2]] :
        f \in PluralForms}
        \cup {[line |-> "Plural-Forms: " \o HeaderOf(f[1], f[2]),
               nplurals |-> f[1], expr |-> f[2]] :
                 f \in {<<3, "n==1 ? 0 : n==2 ? 1 : 2">>}}
        \cup {[line |-> CountOnly(2), nplurals |-> 2, expr |-> ""],
              [line |-> Prefixed(2, "n != 1"), nplurals |-> 2, expr |-> "n != 1"]}

\* headers without a declaration nplurals=<digits>;
UncountedHeaders ==
    {"garbage", "nplurals = 2; plural=n != 1;", "nplurals=2 plural=n != 1",
     "nplurals=; plural=n;", "nplurals=x; plural=n;", "plural=n != 1;"}

HeaderLines == {h.line : h \in CountedHeaders} \cup UncountedHeaders

MaxNs == {0, 6, MaxN}
PerGroups == {0, 2, DefaultPerGroup}

\* ascending values, as group keeps them
RECURSIVE Ascending(_, _)
Ascending(S, from) ==
    IF \A v \in S : v < from
    THEN <<>>
    ELSE LET m == CHOOSE v \in S : v >= from /\ \A w \in S : w >= from => v <= w
         IN  <<m>> \o Ascending(S, m + 1)

ValueLists == {Ascending(S, 0) : S \in SUBSET (0 .. MaxValue)}

(***************************************************************************)
(* The calls to the formula engine.                                        *)
(***************************************************************************)
InitPlural ==
    /\ pc = "call"
    /\ messages = <<>>
    /\ plural_form_hints = None
    /\ tabledata = <<>>
    /\ wb = NoWorkbook
    /\ po = <<>>
    /\ raised = "none"
    /\ saved = <<>>
    /\ ImportIdle /\ ExportIdle /\ PluralIdle
    /\ SheetIdle /\ ConvertIdle /\ ProcessIdle

\* parse(expr) and parse(expr, n=i)
Parse ==
    /\ pc = "call"
    /\ \E expr \in Formulas, variables \in VariableChoices :
          /\ call' = [fn |-> "parse", expr |-> expr, variables |-> variables]
          /\ ret' = parse(expr, variables)
    /\ pc' = "returned"
    /\ UNCHANGED <<ws, convert_vars, process_vars>>
    /\ UNCHANGED <<messages, plural_form_hints, tabledata, wb, po, raised, saved>>
    /\ UNCHANGED <<import_vars, export_vars>>

\* list(group(plural_line, max_n, per_group))
Group ==
    /\ pc = "call"
    /\ \E plural_line \in HeaderLines, max_n \in MaxNs, per_group \in PerGroups :
          /\ call' = [fn |-> "group", plural_line |-> plural_line,
                      max_n |-> max_n, per_group |-> per_group]
          /\ ret' = group(plural_line, max_n, per_group)
    /\ pc' = "returned"
    /\ UNCHANGED <<ws, convert_vars, process_vars>>
    /\ UNCHANGED <<messages, plural_form_hints, tabledata, wb, po, raised, saved>>
    /\ UNCHANGED <<import_vars, export_vars>>

\* _format_values(values, has_more), on what group yields with per_group >= 1
FormatValues ==
    /\ pc = "call"
    /\ \E values \in ValueLists, has_more \in BOOLEAN :
          /\ has_more => values # <<>>
          /\ call' = [fn |-> "_format_values", values |-> values, has_more |-> has_more]
          /\ ret' = [raised |-> "none", msg |-> "",
                     value |-> Str(<<format_values(values, has_more)>>)]
    /\ pc' = "returned"
    /\ UNCHANGED <<ws, convert_vars, process_vars>>
    /\ UNCHANGED <<messages, plural_form_hints, tabledata, wb, po, raised, saved>>
    /\ UNCHANGED <<import_vars, export_vars>>

\* get_plural_hints(pofile.metadata.get("Plural-Forms"))
GetPluralHints ==
    /\ pc = "call"
    /\ \E plural_form \in {None, EmptyStr} \cup {Str(<<h>>) : h \in HeaderLines} :
          /\ call' = [fn |-> "get_plural_hints", plural_form |-> plural_form]
          /\ ret' = get_plural_hints(plural_form)
    /\ pc' = "returned"
    /\ UNCHANGED <<ws, convert_vars, process_vars>>
    /\ UNCHANGED <<messages, plural_form_hints, tabledata, wb, po, raised, saved>>
    /\ UNCHANGED <<import_vars, export_vars>>

NextPlural == Parse \/ Group \/ FormatValues \/ GetPluralHints

SpecPlural == InitPlural /\ [][NextPlural]_vars

(***************************************************************************)
(* Properties of the hints of the plural forms.                            *)
(***************************************************************************)
Called(fn) == pc = "returned" /\ call.fn = fn

\* the header s has a declaration nplurals=<digits>;
HasCount(s) ==
    \E i \in 1 .. Len(s), j \in 1 .. Len(s) :
        /\ j > i + Len("nplurals=")
        /\ SubSeq(s, i, i + Len("nplurals=") - 1) = "nplurals="
        /\ \A k \in i + Len("nplurals=") .. j - 1 : Ch(s, k) \in DigitChars
        /\ Ch(s, j) = ";"

\* the header get_plural_hints was called with, among the headers with a
\* declaration
CalledWithCounted(h) ==
    /\ Called("get_plural_hints")
    /\ call.plural_form = Str(<<h.line>>)

\* enumerating the buckets of the header fails
EnumerationFails(h) == group(h.line, MaxN, HintsPerGroup).raised # "none"

GenericHints(nplurals) ==
    Dict([i \in 0 .. nplurals - 1 |-> Str(<<"Plural Form " \o Decimal(i + 1)>>)])

DefaultHints == Dict((0 :> Str(<<"Singular">>)) @@ (1 :> Str(<<"Plural">>)))

\* C13: for a header that declares nplurals=N and whose buckets cannot be
\* enumerated, whatever the failure, get_plural_hints raises nothing and
\* returns the labels "Plural Form 1" .. "Plural Form N".
C13_HintFallback ==
    \A h \in CountedHeaders :
        (CalledWithCounted(h) /\ EnumerationFails(h)) =>
            /\ ret.raised = "none"
            /\ ret.value = GenericHints(h.nplurals)

Runs(V) ==
    {r \in V \X V :
        /\ r[1] <= r[2]
        /\ \A v \in r[1] .. r[2] : v \in V
        /\ r[1] - 1 \notin V
        /\ r[2] + 1 \notin V}

RunText(r) ==
    IF r[1] = r[2] THEN Decimal(r[1]) ELSE Decimal(r[1]) \o "-" \o Decimal(r[2])

\* the k-th run of V, k = 1 for the lowest
NthRun(V, k) ==
    CHOOSE r \in Runs(V) : Cardinality({q \in Runs(V) : q[1] < r[1]}) = k - 1

\* the ranges of a label: the first two runs, then ", ..." if there are
\* more runs or the bucket is truncated
RangesText(V, truncated) ==
    (IF Cardinality(Runs(V)) = 0 THEN ""
     ELSE IF Cardinality(Runs(V)) = 1 THEN RunText(NthRun(V, 1))
     ELSE RunText(NthRun(V, 1)) \o ", " \o RunText(NthRun(V, 2)))
        \o (IF Cardinality(Runs(V)) > 2 \/ truncated THEN ", ..." ELSE "")

LabelText(V, truncated) ==
    (IF 1 \in V THEN "Singular" ELSE "Plural") \o ", n = " \o RangesText(V, truncated)

\* the values of 0 .. max_n the formula sends to bucket i
Bucket(expr, max_n, i) ==
    {n \in 0 .. max_n : LET r == parse(expr, Variables(n))
                        IN  r.raised = "none" /\ IntOf(r.value) = i}

SeqToSet(s) == {s[k] : k \in 1 .. Len(s)}

\* C15: the label of a bucket is "Singular" if 1 is among its values and
\* "Plural" if not, then ", n = ", then the first two maximal runs of its
\* values as "a-b" or "a", joined by ", ", then ", ..." exactly if there are
\* more than two runs or the bucket is truncated.
C15_HintLabelFormat ==
    /\ \A h \in CountedHeaders :
          (CalledWithCounted(h) /\ ~EnumerationFails(h)) =>
              /\ ret.raised = "none"
              /\ DOMAIN ret.value.d = 0 .. h.nplurals - 1
              /\ \A i \in 0 .. h.nplurals - 1 :
                    ret.value.d[i] = Str(<<LabelText(Bucket(h.expr, MaxN, i), FALSE)>>)
    /\ Called("_format_values") =>
          ret.value = Str(<<RangesText(SeqToSet(call.values), call.has_more)>>)

\* buckets of more than two runs
C15_Witness ==
    /\ Called("get_plural_hints")
    /\ call.plural_form = Str(<<HeaderOf(2, "n % 2")>>)
    /\ ret.value = Dict((0 :> Str(<<"Plural, n = 0, 2, ...">>))
                            @@ (1 :> Str(<<"Singular, n = 1, 3, ...">>)))

(***************************************************************************)
(* Properties of the formula engine.                                       *)
(***************************************************************************)
\* the formula sends every n of 0 .. max_n to a bucket of 0 .. nplurals - 1
MapsIntoBuckets(h, max_n) ==
    \A n \in 0 .. max_n :
        LET r == parse(h.expr, Variables(n))
        IN  r.raised = "none" /\ IntOf(r.value) \in 0 .. h.nplurals - 1

\* values are the first per_group members of S, ascending
FirstOf(values, S, per_group) ==
    /\ Len(values) = (IF Cardinality(S) < per_group THEN Cardinality(S) ELSE per_group)
    /\ \A k \in 1 .. Len(values) : values[k] \in S
    /\ \A k \in 1 .. Len(values) - 1 : values[k] < values[k + 1]
    /\ \A v \in S : v \in SeqToSet(values) \/ \A k \in 1 .. Len(values) : values[k] < v

\* the header group was called with, among those of the form
\* "nplurals=N; plural=<formula>;"
GroupCalledWith(h) ==
    /\ Called("group")
    /\ call.plural_line \in {HeaderOf(h.nplurals, h.expr),
                             "Plural-Forms: " \o HeaderOf(h.nplurals, h.expr)}

\* C16: for a header that declares nplurals=N and a formula that sends every
\* n of 0 .. max_n into 0 .. N-1, group yields N entries, entry i for bucket
\* i, with the first per_group values of the bucket in ascending order and
\* has_more exactly if the bucket has more; an empty bucket has an entry too.
C16_BucketEnumeration ==
    \A h \in CountedHeaders :
        (GroupCalledWith(h) /\ MapsIntoBuckets(h, call.max_n)) =>
            /\ ret.raised = "none"
            /\ Len(ret.value) = h.nplurals
            /\ \A i \in 0 .. h.nplurals - 1 :
                  LET S == Bucket(h.expr, call.max_n, i)
                      e == ret.value[i + 1]
                  IN  /\ e.group = i
                      /\ FirstOf(e.values, S, call.per_group)
                      /\ e.has_more = (Cardinality(S) > call.per_group)
                      /\ S = {} => e.values = <<>> /\ ~e.has_more

\* the grouping of the tests: the third bucket is cut at per_group values
C16_Witness ==
    /\ Called("group")
    /\ call.plural_line = "Plural-Forms: " \o HeaderOf(3, "n==1 ? 0 : n==2 ? 1 : 2")
    /\ call.max_n = MaxN
    /\ call.per_group = DefaultPerGroup
    /\ ret.value = <<[group |-> 0, values |-> <<1>>, has_more |-> FALSE],
                     [group |-> 1, values |-> <<2>>, has_more |-> FALSE],
                     [group |-> 2, values |-> <<0, 3, 4, 5, 6>>, has_more |-> TRUE]>>

\* the characters the lexer knows
Recognized ==
    DigitChars \cup AlphaChars \cup SpaceChars \cup DOMAIN OP_TYPES \cup CmpChars

\* text has an unrecognized character, a lone & or |, or a name other than n
LexicallyInvalid(text) ==
    \/ \E i \in 1 .. Len(text) : Ch(text, i) \notin Recognized
    \/ \E i \in 1 .. Len(text) :
          /\ Ch(text, i) \in {"&", "|"}
          /\ i = 1 \/ Ch(text, i - 1) # Ch(text, i)
          /\ i = Len(text) \/ Ch(text, i + 1) # Ch(text, i)
    \/ \E i \in 1 .. Len(text), j \in 1 .. Len(text) :
          /\ i <= j
          /\ \A k \in i .. j : Ch(text, k) \in AlphaChars
          /\ i = 1 \/ Ch(text, i - 1) \notin AlphaChars
          /\ j = Len(text) \/ Ch(text, j + 1) \notin AlphaChars
          /\ SubSeq(text, i, j) # "n"

\* C17: parse raises a ValueError, and returns no value, for every formula
\* with an unrecognized character, a lone & or |, or a name other than n,
\* wherever it is in the formula.
C17_LexicalValidity ==
    (Called("parse") /\ LexicallyInvalid(call.expr)) => ret.raised = "ValueError"

\* the number of "(" less the number of ")" among the first k characters
RECURSIVE Depth(_, _)
Depth(text, k) ==
    IF k = 0 THEN 0
    ELSE Depth(text, k - 1)
            + (IF Ch(text, k) = "(" THEN 1 ELSE IF Ch(text, k) = ")" THEN -1 ELSE 0)

\* text is empty, starts with a binary operator, or has a parenthesis
\* without its match
StructurallyInvalid(text) ==
    \/ \A i \in 1 .. Len(text) : Ch(text, i) \in SpaceChars
    \/ \E i \in 1 .. Len(text) :
          /\ Ch(text, i) \in {"+", "-", "*", "/", "%", "^"}
          /\ \A k \in 1 .. i - 1 : Ch(text, k) \in SpaceChars
    \/ Depth(text, Len(text)) > 0
    \/ \E k \in 1 .. Len(text) : Depth(text, k) < 0

\* C18: parse raises ValueError("Invalid syntax"), and returns no value, for
\* the empty formula, for an operator in the place of a factor and for a
\* parenthesis without its match, "(" as well as ")".
C18_StructuralValidity ==
    (Called("parse") /\ "n" \in DOMAIN call.variables
        /\ ~LexicallyInvalid(call.expr) /\ StructurallyInvalid(call.expr)) =>
        (ret.raised = "ValueError" /\ ret.msg = "Invalid syntax")

\* C19: c1 ? a : c2 ? b : c is a when c1 holds, b when c1 does not hold and
\* c2 does, c otherwise: the ternary binds last and nests to the right, and
\* a condition with && or || is evaluated as a whole before the choice.
C19_Ternary ==
    (Called("parse") /\ "n" \in DOMAIN call.variables /\ call.expr \in TernFormulas) =>
        LET n == call.variables.n.v
        IN  \A c1 \in Conds, c2 \in Conds, v \in Branches :
                call.expr = TernText(c1, v[1], c2, v[2], v[3]) =>
                    /\ ret.raised = "none"
                    /\ ret.value = Num(IF CondHolds(c1, n) THEN v[1]
                                       ELSE IF CondHolds(c2, n) THEN v[2] ELSE v[3])

C19_Witness ==
    /\ Called("parse")
    /\ call.expr = "n % 10 == 1 && n % 100 != 11 ? 0 : n != 0 ? 1 : 2"
    /\ call.variables = Variables(11)
    /\ ret.value = Num(1)

\* q is a / b rounded toward negative infinity; r has the sign of b
FloorQuotient(q, a, b) ==
    IF b > 0 THEN q * b <= a /\ a < (q + 1) * b
    ELSE q * b >= a /\ a > (q + 1) * b

SignedRemainder(r, a, b) ==
    /\ IF b > 0 THEN 0 <= r /\ r < b ELSE b < r /\ r <= 0
    /\ \E q \in -(a * a + 1) .. (a * a + 1) : q * b + r = a

\* C20: a / b is the quotient rounded toward negative infinity and a % b the
\* remainder with the sign of b, for b # 0 and operands of either sign, and
\* (a / b) * b + (a % b) = a.
C20_FloorDivMod ==
    (Called("parse") /\ "n" \in DOMAIN call.variables
        /\ call.expr \in DivFormulas \cup {"n / 2", "n % 10"}) =>
        LET n == call.variables.n.v
        IN  /\ \A x \in Operands, y \in Operands :
                  LET a == OperandValue(x, n)
                      b == OperandValue(y, n)
                  IN  b # 0 =>
                        /\ call.expr = DivText(x, y) =>
                              /\ ret.raised = "none"
                              /\ ret.value.t = "int"
                              /\ FloorQuotient(ret.value.v, a, b)
                        /\ call.expr = ModText(x, y) =>
                              /\ ret.raised = "none"
                              /\ ret.value.t = "int"
                              /\ SignedRemainder(ret.value.v, a, b)
                        /\ call.expr = IdentityText(x, y) => ret.value = Num(a)
            /\ (call.expr = "n / 2" /\ n = 7) => ret.value = Num(3)
            /\ (call.expr = "n % 10" /\ n = 11) => ret.value = Num(1)

\* a negative left operand: (2 - 5) / 2 is -2
C20_Witness ==
    /\ Called("parse")
    /\ call.expr = DivText("n - 5", "2")
    /\ call.variables = Variables(2)
    /\ ret.value = Num(-2)

(***************************************************************************)
(* The export command: Po2ExcelConverter.run converts the catalogs as the  *)
(* tasks of one asyncio.TaskGroup (cli/pox_convert.py).                    *)
(*                                                                         *)
(* The event loop runs its callbacks in the order they were scheduled.     *)
(* create_task schedules the first step of the task; a step runs the       *)
(* coroutine up to its next await, and convert_po_file has none; the end   *)
(* of a task schedules the callback of the task group, which cancels the   *)
(* tasks that are not over when the task ended with an exception.          *)
(***************************************************************************)
MaxCatalogs == 3    \* po files of one batch

Catalog(readable, language, plural_forms) ==
    [readable |-> readable, language |-> language, plural_forms |-> plural_forms]

\* the po files: three that convert, one polib cannot read, one without a
\* language, one whose Plural-Forms makes get_plural_hints raise
Catalogs ==
    {Catalog(TRUE, Str(<<"de">>), h) :
        h \in {None, Str(<<HeaderOf(2, "n != 1")>>), Str(<<HeaderOf(3, "@@@")>>),
               Str(<<HeaderOf(2, "1 / n")>>)}}
        \cup {Catalog(FALSE, None, None), Catalog(TRUE, None, None)}

\* convert_po_file(path): the exception it ends with, and whether
\* xlsx.generate wrote the spreadsheet
convert_po_file(catalog) ==
    IF ~catalog.readable \/ ~Truthy(catalog.language)
    THEN [raised |-> "none", generated |-> FALSE]
    ELSE LET generate(hints) ==
                 [raised |-> hints.raised, generated |-> hints.raised = "none"]
         IN  generate(get_plural_hints(catalog.plural_forms))

call_soon_first(queue, handle) == <<handle>> \o queue

\* loop.call_soon(callback)
call_soon(queue, handle) == Append(queue, handle)

Step(i) == [kind |-> "step", task |-> i]
DoneCallback(i) == [kind |-> "done", task |-> i]

\* pox export <po_file ...>: main builds the converter and runs run
InitExport ==
    /\ pc = "start"
    /\ messages = <<>>
    /\ plural_form_hints = None
    /\ tabledata = <<>>
    /\ wb = NoWorkbook
    /\ po = <<>>
    /\ raised = "none"
    /\ saved = <<>>
    /\ \E k \in 1 .. MaxCatalogs : po_files \in [1 .. k -> Catalogs]
    /\ ready = <<>>
    /\ tasks = <<>>
    /\ generated = {}
    /\ ImportIdle /\ PluralIdle
    /\ SheetIdle /\ ConvertIdle /\ ProcessIdle

\* the body of the async with: tg.create_task for every path, in order
CreateTasks ==
    /\ pc = "start"
    /\ tasks' = [i \in 1 .. Len(po_files) |-> "pending"]
    /\ ready' = [i \in 1 .. Len(po_files) |-> Step(i)]
    /\ pc' = "aexit"
    /\ UNCHANGED <<ws, convert_vars, process_vars>>
    /\ UNCHANGED <<messages, plural_form_hints, tabledata, wb, po, raised, saved>>
    /\ UNCHANGED <<po_files, generated, import_vars, plural_vars>>

\* the loop runs the first step of a task: convert_po_file from its start
\* to its end, or the CancelledError of a task cancelled before it started
TaskStep ==
    /\ pc = "aexit"
    /\ ready # <<>>
    /\ Head(ready).kind = "step"
    /\ LET i == Head(ready).task
           over(r) ==
               /\ tasks' = [tasks EXCEPT ![i] =
                               IF @ = "cancelling" THEN "cancelled"
                               ELSE IF r.raised = "none" THEN "done" ELSE "failed"]
               /\ generated' = IF tasks[i] = "pending" /\ r.generated
                               THEN generated \cup {i} ELSE generated
       IN  /\ over(convert_po_file(po_files[i]))
           /\ ready' = call_soon(Tail(ready), DoneCallback(i))
    /\ UNCHANGED <<ws, convert_vars, process_vars>>
    /\ UNCHANGED <<pc, messages, plural_form_hints, tabledata, wb, po, raised, saved>>
    /\ UNCHANGED <<po_files, import_vars, plural_vars>>

\* the loop runs the callback of the task group for a task that is over: a
\* task that ended with an exception cancels the tasks that are not over;
\* after the last task the async with ends, with the exceptions if any
TaskDone ==
    /\ pc = "aexit"
    /\ ready # <<>>
    /\ Head(ready).kind = "done"
    /\ LET i == Head(ready).task
           after == IF tasks[i] = "failed"
                    THEN [k \in 1 .. Len(tasks) |->
                             IF tasks[k] = "pending" THEN "cancelling" ELSE tasks[k]]
                    ELSE tasks
       IN  /\ tasks' = after
           /\ pc' = IF \E k \in 1 .. Len(tasks) : after[k] \in {"pending", "cancelling"}
                    THEN "aexit"
                    ELSE IF \E k \in 1 .. Len(tasks) : after[k] = "failed"
                         THEN "exit" ELSE "done"
    /\ ready' = Tail(ready)
    /\ UNCHANGED <<ws, convert_vars, process_vars>>
    /\ UNCHANGED <<messages, plural_form_hints, tabledata, wb, po, raised, saved>>
    /\ UNCHANGED <<po_files, generated, import_vars, plural_vars>>

NextExport == CreateTasks \/ TaskStep \/ TaskDone

SpecExport == InitExport /\ [][NextExport]_vars

(***************************************************************************)
(* Properties of the export command.                                       *)
(***************************************************************************)
\* the export command is over: run returned or the exceptions left it
ExportOver == pc \in {"done", "exit"} /\ po_files # <<>>

\* the conversion of the catalog raises
Fails(catalog) ==
    /\ catalog.readable
    /\ catalog.language # None
    /\ catalog.plural_forms \in {Str(<<HeaderOf(2, "1 / n")>>)}

\* C12: when the export command is over, every catalog that is readable,
\* has a language and does not fail itself has its spreadsheet generated,
\* whatever exception the conversion of another catalog of the batch raised.
C12_ExportBatchIsolation ==
    ExportOver =>
        \A i \in 1 .. Len(po_files) :
            (po_files[i].readable /\ po_files[i].language # None
                /\ ~Fails(po_files[i])) => i \in generated

\* the first catalog fails and catalogs after it are generated
C12_Witness ==
    /\ pc = "exit"
    /\ Len(po_files) = MaxCatalogs
    /\ Fails(po_files[1])
    /\ tasks[1] = "failed"
    /\ \A i \in 2 .. Len(po_files) : i \in generated

(***************************************************************************)
(* The conversion of one catalog: convert_po_file reads the entries of the *)
(* po file and hands them to the spreadsheet (cli/pox_convert.py).         *)
(***************************************************************************)
MaxEntries == 2     \* entries of a po file

\* the choices of --fuzzy
FuzzyChoices == {"stop", "ignore", "include"}

\* the options of the export command: --language is not given
Options(fuzzy) == [language |-> None, fuzzy |-> fuzzy]

\* a polib.POEntry with its flags
FlaggedEntry(entry, flags) ==
    [msgid |-> entry.msgid, msgid_plural |-> entry.msgid_plural,
     msgstr |-> entry.msgstr, msgstr_plural |-> entry.msgstr_plural,
     msgctxt |-> entry.msgctxt, obsolete |-> entry.obsolete, flags |-> flags]

\* the k-th entry of a po file: singular, plural or obsolete, fuzzy or not
EntrySet(k) ==
    {FlaggedEntry(e, flags) :
        e \in {POEntry(MsgId(k), EmptyStr, FormText(0), EmptyDict, None, FALSE),
               POEntry(MsgId(k), MsgId(k), EmptyStr,
                       Dict([i \in 0 .. 1 |-> FormText(i)]), None, FALSE),
               POEntry(MsgId(k), EmptyStr, FormText(0), EmptyDict, None, TRUE)},
        flags \in {{}, {"fuzzy"}}}

\* a po file polib reads, with its metadata and its entries
POFile(language, plural_forms, entries) ==
    [readable |-> TRUE, language |-> language, plural_forms |-> plural_forms,
     entries |-> entries]

POFiles ==
    {POFile(Str(<<"de">>), h, entries) :
        h \in {None, Str(<<HeaderOf(2, "n != 1")>>)},
        entries \in UNION {{e \in [1 .. k -> UNION {EntrySet(j) : j \in 1 .. k}] :
                               \A j \in 1 .. k : e[j] \in EntrySet(j)} :
                           k \in 0 .. MaxEntries}}

\* the Message of an entry: the body of the loop over iter(pofile)
message_of(item) ==
    IF Truthy(item.msgstr_plural)
    THEN Message(PluralTranslation(item.msgid_plural, item.msgstr_plural),
                 item.msgctxt, item.obsolete)
    ELSE Message(SingularTranslation(item.msgid, item.msgstr), item.msgctxt,
                 item.obsolete)

\* messages after the loop over iter(pofile): every entry, in order
collect_messages(entries) == [i \in 1 .. Len(entries) |-> message_of(entries[i])]

\* pox export --fuzzy=<choice> <po file>
InitFuzzy ==
    /\ pc = "convert"
    /\ messages = <<>>
    /\ plural_form_hints = None
    /\ tabledata = <<>>
    /\ wb = NoWorkbook
    /\ po = <<>>
    /\ raised = "none"
    /\ saved = <<>>
    /\ ImportIdle /\ ExportIdle /\ PluralIdle
    /\ SheetIdle /\ ProcessIdle
    /\ options \in {Options(f) : f \in FuzzyChoices}
    /\ pofile \in POFiles

\* convert_po_file(path), xlsx.generate included
ConvertPoFile ==
    /\ pc = "convert"
    /\ LET converted(r, hints) ==
               /\ raised' = r.raised
               /\ generated' = IF r.generated THEN {1} ELSE {}
               /\ messages' = IF r.generated
                              THEN collect_messages(pofile.entries) ELSE messages
               /\ plural_form_hints' = IF r.generated
                                       THEN hints.value ELSE plural_form_hints
               /\ tabledata' = IF r.generated
                               THEN get_tabledata(collect_messages(pofile.entries),
                                                  hints.value)
                               ELSE tabledata
       IN  converted(convert_po_file(pofile), get_plural_hints(pofile.plural_forms))
    /\ pc' = "converted"
    /\ UNCHANGED <<wb, po, saved, import_vars, plural_vars, ws, process_vars>>
    /\ UNCHANGED <<po_files, ready, tasks, convert_vars>>

NextFuzzy == ConvertPoFile

SpecFuzzy == InitFuzzy /\ [][NextFuzzy]_vars

(***************************************************************************)
(* Properties of the conversion of one catalog.                            *)
(***************************************************************************)
Converted == pc = "converted"

FuzzyEntries ==
    {i \in 1 .. Len(pofile.entries) : "fuzzy" \in pofile.entries[i].flags}

\* the source texts of the rows of the generated spreadsheet
RowSources ==
    IF generated = {} THEN {} ELSE {tabledata[r][3][1] : r \in 2 .. Len(tabledata)}

\* the entries that are rows of the generated spreadsheet
EntriesInRows ==
    {i \in 1 .. Len(pofile.entries) : pofile.entries[i].msgid \in RowSources}

\* C21: a fuzzy entry is a row of the spreadsheet only with --fuzzy=include;
\* with --fuzzy=ignore the fuzzy entries are skipped and the others are
\* rows; with --fuzzy=stop a catalog with a fuzzy entry gets no spreadsheet.
C21_FuzzyHandling ==
    Converted =>
        /\ options.fuzzy = "include" =>
              generated = {1} /\ EntriesInRows = 1 .. Len(pofile.entries)
        /\ options.fuzzy = "ignore" =>
              generated = {1}
                  /\ EntriesInRows = (1 .. Len(pofile.entries)) \ FuzzyEntries
        /\ options.fuzzy = "stop" =>
              IF FuzzyEntries # {}
              THEN generated = {}
              ELSE generated = {1} /\ EntriesInRows = 1 .. Len(pofile.entries)

(***************************************************************************)
(* The kind of the decoded entries.                                        *)
(***************************************************************************)
\* the header cells from index 3 on whose text starts with "Translation"
TranslationHeaderCells ==
    {j \in 4 .. Len(SheetRows[1]) :
        SheetRows[1][j].t = "str" /\ StartsWith(SheetRows[1][j], <<"Translation">>)}

\* the value of the column idx of a row, 0-based: the empty string when the
\* cell is absent or empty
ColumnText(row, idx) ==
    IF idx < Len(row) /\ row[idx + 1] \notin {None, EmptyStr}
    THEN row[idx + 1]
    ELSE EmptyStr

\* C22: with k header cells from index 3 on that start with "Translation",
\* every row that is not skipped gives an entry: plural, mapping 0..k-1 to
\* the columns 3.. of the row, when k > 1; singular, with column 3 as its
\* target, when k <= 1; absent and empty cells give the empty string.
C22_EntryKind ==
    (Done /\ ShapeOk) =>
        LET k == Cardinality(TranslationHeaderCells)
        IN  /\ Len(po) = Len(IdRowsOfSheet)
            /\ \A r \in 1 .. Len(po) :
                  IF k > 1
                  THEN po[r].msgstr_plural =
                           Dict([i \in 0 .. k - 1 |->
                                    ColumnText(IdRowsOfSheet[r], 3 + i)])
                  ELSE /\ po[r].msgstr_plural = EmptyDict
                       /\ po[r].msgstr = ColumnText(IdRowsOfSheet[r], 3)

(***************************************************************************)
(* Properties of the operators of the formulas.                            *)
(***************************************************************************)
\* the n of the call, 0 for a call without variables
ArgN == IF "n" \in DOMAIN call.variables THEN call.variables.n.v ELSE 0

\* C23: a chain of && and || is evaluated from left to right, both at the
\* same precedence: a && b || c is (a && b) || c and a || b && c is
\* (a || b) && c, for all boolean a, b, c.
C23_LogicalChain ==
    (Called("parse") /\ call.expr \in LogicFormulas /\ ret.raised = "none") =>
        \A a \in LogicOperands, b \in LogicOperands, c \in LogicOperands :
            LET A == LogicHolds(a, ArgN)
                B == LogicHolds(b, ArgN)
                C == LogicHolds(c, ArgN)
            IN  /\ call.expr = AndOrText(a, b, c) =>
                      (Truthy(ret.value) <=> ((A /\ B) \/ C))
                /\ call.expr = OrAndText(a, b, c) =>
                      (Truthy(ret.value) <=> ((A \/ B) /\ C))

\* C24: a comparison is applied between two additive results: n <op> b + c
\* compares n with b + c, and n == 1 + 1 is true iff n = 2.
C24_ComparisonOperands ==
    (Called("parse") /\ "n" \in DOMAIN call.variables
        /\ call.expr \in CmpAddFormulas \cup {"n == 1 + 1"}) =>
        /\ ret.raised = "none"
        /\ \A op \in CmpOps, v \in Addends :
              call.expr = CmpAddText(op, v[1], v[2]) =>
                  (Truthy(ret.value) <=> CmpHolds(op, ArgN, v[1] + v[2]))
        /\ call.expr = "n == 1 + 1" => (Truthy(ret.value) <=> ArgN = 2)

\* C25: a leading ! gives the negation, as a boolean, of the expression to
\* its right: !0 is true, !1 is false, and !e is true iff e is zero or false,
\* for e without a ternary at its top.
C25_UnaryNot ==
    Called("parse") =>
        /\ \A e \in NotOperands :
              (call.expr = NotText(e)
                  /\ ("n" \in DOMAIN call.variables \/ e \in {"0", "1"})) =>
                  /\ ret.raised = "none"
                  /\ ret.value = Bool(IsZero(e, ArgN))
        /\ call.expr = "!0" => ret.value = Bool(TRUE)
        /\ call.expr = "!1" => ret.value = Bool(FALSE)

\* the negation of a comparison after a subtraction, true and false
C25_Witness ==
    /\ Called("parse")
    /\ call.expr = NotText("n - 1 == 0")
    /\ call.variables = Variables(3)
    /\ ret.value = Bool(TRUE)

(***************************************************************************)
(* The sheet of a catalog of several rows: the catalog is collected, then  *)
(* encoded and generated.                                                  *)
(***************************************************************************)
MaxSheetRows == 4   \* messages of the catalog whose sheet is styled

\* the k-th message: translated, untranslated, a plural with a form
\* missing, or obsolete and untranslated
SheetMessages(k) ==
    {Message(SingularTranslation(MsgId(k), FormText(0)), None, FALSE),
     Message(SingularTranslation(MsgId(k), EmptyStr), None, FALSE),
     Message(PluralTranslation(MsgId(k),
                               Dict((0 :> FormText(0)) @@ (1 :> EmptyStr))),
             None, FALSE),
     Message(SingularTranslation(MsgId(k), EmptyStr), None, TRUE)}

\* convert_po_file has collected the messages of the catalog
InitSheet ==
    /\ pc = "collect"
    /\ \E k \in 0 .. MaxSheetRows :
          /\ messages \in [1 .. k -> UNION {SheetMessages(j) : j \in 1 .. k}]
          /\ \A j \in 1 .. k : messages[j] \in SheetMessages(j)
    /\ plural_form_hints = None
    /\ tabledata = <<>>
    /\ wb = NoWorkbook
    /\ po = <<>>
    /\ raised = "none"
    /\ saved = <<>>
    /\ ImportIdle /\ ExportIdle /\ PluralIdle
    /\ SheetIdle /\ ConvertIdle /\ ProcessIdle

NextSheet == GetTabledata \/ Generate

SpecSheet == InitSheet /\ [][NextSheet]_vars

(***************************************************************************)
(* Properties of the styles of the sheet.                                  *)
(***************************************************************************)
Written == pc = "written"

\* the cell of the grid carries the empty highlight; r and c count from 1,
\* the header is row 1
Highlighted(r, c) ==
    /\ r \in 2 .. Len(tabledata)
    /\ c \in 1 .. Len(tabledata[r])
    /\ tabledata[r][c][2] = S_MSG_STR_EMPTY

\* the box of a cell of a run, by its neighbours above and below
BoxOf(above, below) ==
    IF ~above /\ ~below THEN EMPTY_BORDER_SINGLE
    ELSE IF ~above THEN EMPTY_BORDER_TOP
    ELSE IF ~below THEN EMPTY_BORDER_BOTTOM
    ELSE EMPTY_BORDER

\* C26: in each translation column, every maximal vertical run of cells
\* with the empty highlight has its box: the single box for a run of one
\* cell, else the top box on the first row, side borders on the middle rows
\* and the bottom box on the last; a highlighted cell keeps its highlight
\* under the stripes and has left and right borders; no other cell has a
\* border.
C26_EmptyRunBorders ==
    Written =>
        /\ Len(ws) = Len(tabledata)
        /\ \A r \in 1 .. Len(ws) : \A c \in 1 .. Len(ws[r]) :
              IF c >= 4 /\ Highlighted(r, c)
              THEN /\ ws[r][c].fill = YELLOW
                   /\ ws[r][c].border =
                          BoxOf(Highlighted(r - 1, c), Highlighted(r + 1, c))
                   /\ ws[r][c].border.left # NoSide
                   /\ ws[r][c].border.right # NoSide
              ELSE ws[r][c].border = NoBorder
        /\ \A r \in 2 .. Len(tabledata) : \A c \in 1 .. Len(tabledata[r]) :
              Highlighted(r, c) => c >= 4

\* a run of three rows in the column of the first form, below a row that
\* is not highlighted, and a run of one cell in the column of the second
C26_Witness ==
    /\ Written
    /\ Len(ws) = 5
    /\ ~Highlighted(2, 4)
    /\ ws[3][4].border = EMPTY_BORDER_TOP
    /\ ws[4][4].border = EMPTY_BORDER
    /\ ws[5][4].border = EMPTY_BORDER_BOTTOM
    /\ Len(ws[4]) = 5
    /\ ws[4][5].border = EMPTY_BORDER_SINGLE
    /\ ws[3][5].fill = ROW_STRIPE


\* C27: every data row of the grid has exactly as many cells as the header
\* row, one row per message: for singular, plural and mixed catalogs, and
\* for no hints, one hint, two hints or more.
C27_RectangularGrid ==
    Encoded =>
        /\ Len(tabledata) = Len(messages) + 1
        /\ \A i \in 1 .. Len(messages) : Len(DataRow(i)) = Len(Header)

\* a singular message in a catalog with extra plural columns, next to a
\* plural message with fewer forms than the catalog declares
C27_Witness ==
    /\ Encoded
    /\ NumPlurals = 3
    /\ Len(Header) = 6
    /\ \E i \in 1 .. Len(messages) : ~is_plural(messages[i])
    /\ \E i \in 1 .. Len(messages) :
          /\ is_plural(messages[i])
          /\ DictLen(messages[i].translation.msgstr) < NumPlurals

\* a plural message encoded when fewer than two plural forms are declared
C27_FewForms ==
    /\ Encoded
    /\ NumPlurals < 2
    /\ SomePlural
    /\ Len(Header) = 4


\* C28: the result of a && b and of a || b on integers is a boolean, 1 when
\* the operation holds and 0 when it does not, never the value of an
\* operand: parse('2 && 3') and parse('0 || 5') are 1.
C28_BooleanLogic ==
    Called("parse") =>
        \A a \in LogicIntegers, b \in LogicIntegers :
            /\ call.expr = AndText(a, b) =>
                  /\ ret.raised = "none"
                  /\ IntOf(ret.value) = (IF a # 0 /\ b # 0 THEN 1 ELSE 0)
            /\ call.expr = OrText(a, b) =>
                  /\ ret.raised = "none"
                  /\ IntOf(ret.value) = (IF a # 0 \/ b # 0 THEN 1 ELSE 0)

\* C29: parse returns a value or raises ValueError, and nothing else, also
\* for a formula that divides or takes a modulo by zero; a division by zero
\* in the branch of a ternary that is not selected does not count:
\* 'n == 0 ? 0 : 10 / n' at n = 0 returns 0.
C29_ClosedErrorSet ==
    Called("parse") =>
        /\ ret.raised \in {"none", "ValueError"}
        /\ (/\ call.expr = "n == 0 ? 0 : 10 / n"
            /\ call.variables = Variables(0)) =>
              /\ ret.raised = "none"
              /\ IntOf(ret.value) = 0


(***************************************************************************)
(* The converters of one process: Po2ExcelConverter.__init__ and run       *)
(* (cli/pox_convert.py).  po_files and warning_descriptions are lists of   *)
(* the class: self.po_files.append and self.warning_descriptions.append    *)
(* find no attribute of the instance and change the list of the class.     *)
(***************************************************************************)
MaxConverters == 2  \* converters constructed in one process

\* what the globs of the command line match: a catalog that converts, one
\* without a language, one that is not text, and a folder
Paths == {"a.po", "b.po", "c.po", "locales"}

is_dir(p) == p = "locales"

\* polib.pofile(str(path)) raises UnicodeDecodeError
Undecodable(p) == p = "c.po"

\* pofile.metadata.get("Language")
MetadataLanguage(p) == IF p = "a.po" THEN Str(<<"de">>) ELSE None

PathRank(p) ==
    CASE p = "a.po" -> 1
      [] p = "b.po" -> 2
      [] p = "c.po" -> 3
      [] p = "locales" -> 4

\* the options of the command line: the matches of the globs, in their
\* order, and --language
ConverterOptions ==
    {[po_file |-> f, language |-> l] :
        f \in {<<"a.po">>, <<"b.po">>, <<"c.po">>, <<"b.po", "a.po">>,
               <<"locales", "a.po">>},
        l \in {None, Str(<<"en">>)}}

\* the paths of the options that are no folder, in their order
RECURSIVE gathered(_)
gathered(po_file) ==
    IF po_file = <<>> THEN <<>>
    ELSE IF is_dir(Head(po_file)) THEN gathered(Tail(po_file))
    ELSE <<Head(po_file)>> \o gathered(Tail(po_file))

\* sorted(paths)
RECURSIVE sorted(_)
sorted(paths) ==
    IF paths = <<>> THEN <<>>
    ELSE LET least == CHOOSE i \in 1 .. Len(paths) :
                          \A j \in 1 .. Len(paths) :
                              \/ PathRank(paths[i]) < PathRank(paths[j])
                              \/ PathRank(paths[i]) = PathRank(paths[j]) /\ i <= j
         IN  <<paths[least]>>
                 \o sorted([k \in 1 .. Len(paths) - 1 |->
                               IF k < least THEN paths[k] ELSE paths[k + 1]])

\* the description convert_po_file appends for the path, if any
warning_of(p, language) ==
    IF Undecodable(p) THEN <<"DECODE_ERROR">>
    ELSE IF ~Truthy(PyOr(language, MetadataLanguage(p))) THEN <<"MISSING_LANGUAGE">>
    ELSE <<>>

\* the descriptions of the paths, in the order of their tasks
RECURSIVE warnings_of(_, _)
warnings_of(paths, language) ==
    IF paths = <<>> THEN <<>>
    ELSE warning_of(Head(paths), language) \o warnings_of(Tail(paths), language)

SeqRange(s) == {s[i] : i \in 1 .. Len(s)}

InitProcess ==
    /\ pc = "process"
    /\ messages = <<>>
    /\ plural_form_hints = None
    /\ tabledata = <<>>
    /\ wb = NoWorkbook
    /\ po = <<>>
    /\ raised = "none"
    /\ saved = <<>>
    /\ ImportIdle /\ ExportIdle /\ PluralIdle
    /\ SheetIdle /\ ConvertIdle /\ ProcessIdle

\* Po2ExcelConverter(options): the paths are appended to the list of the
\* class, then fail raises ConverterError for --language with several paths
Construct ==
    /\ pc = "process"
    /\ Len(converters) < MaxConverters
    /\ \E opts \in ConverterOptions :
          LET po_files_after == Po2ExcelConverter_po_files \o gathered(opts.po_file)
          IN  /\ Po2ExcelConverter_po_files' = po_files_after
              /\ converters' =
                    Append(converters,
                           [options |-> opts,
                            failed |-> Truthy(opts.language) /\ Len(po_files_after) > 1,
                            ran |-> FALSE,
                            converted |-> <<>>,
                            displayed |-> {}])
    /\ UNCHANGED Po2ExcelConverter_warning_descriptions
    /\ UNCHANGED <<pc, messages, plural_form_hints, tabledata, wb, po, raised, saved>>
    /\ UNCHANGED <<import_vars, export_vars, plural_vars, ws, convert_vars>>

\* asyncio.run(convert.run()): one task for each path of sorted(self.po_files),
\* then display_messages if self.warning_descriptions is not empty
Run ==
    /\ pc = "process"
    /\ \E i \in 1 .. Len(converters) :
          /\ ~converters[i].failed
          /\ ~converters[i].ran
          /\ LET paths == sorted(Po2ExcelConverter_po_files)
                 descriptions ==
                     Po2ExcelConverter_warning_descriptions
                         \o warnings_of(paths, converters[i].options.language)
             IN  /\ Po2ExcelConverter_warning_descriptions' = descriptions
                 /\ converters' =
                       [converters EXCEPT ![i] =
                           [@ EXCEPT !.ran = TRUE,
                                     !.converted = paths,
                                     !.displayed = SeqRange(descriptions)]]
    /\ UNCHANGED Po2ExcelConverter_po_files
    /\ UNCHANGED <<pc, messages, plural_form_hints, tabledata, wb, po, raised, saved>>
    /\ UNCHANGED <<import_vars, export_vars, plural_vars, ws, convert_vars>>

NextProcess == Construct \/ Run

SpecProcess == InitProcess /\ [][NextProcess]_vars

(***************************************************************************)
(* Properties of the converters of one process.                            *)
(***************************************************************************)
\* what the converter's own options gather, and what its own run warns of
OwnFiles(c) == gathered(c.options.po_file)
OwnWarnings(c) == SeqRange(warnings_of(sorted(OwnFiles(c)), c.options.language))

\* C30: a converter's po_files hold what its own options gathered, and it
\* converts and reports only that: the files and the warnings of another
\* converter of the process are not among them.
C30_NoSharedState ==
    \A i \in 1 .. Len(converters) :
        /\ i = Len(converters) =>
              Po2ExcelConverter_po_files = OwnFiles(converters[i])
        /\ converters[i].ran =>
              /\ converters[i].converted = sorted(OwnFiles(converters[i]))
              /\ converters[i].displayed = OwnWarnings(converters[i])

\* the first converter of a process behaves as the claim has it
FirstConverterAlone ==
    (Len(converters) = 1 /\ converters[1].ran) =>
        /\ converters[1].converted = sorted(OwnFiles(converters[1]))
        /\ converters[1].displayed = OwnWarnings(converters[1])

====
